---- MODULE Spec2Model ----
(***************************************************************************)
(* Model of the name RPCs of src/src/rpc/names.cpp: name_scan, name_show,  *)
(* name_history, name_pending, name_export and name_checkdb, run by one    *)
(* RPC worker against the name index (the coins tip), the name history,    *)
(* the memory pool, the request's wallet, the active chain and the locks   *)
(* cs_main, cs_wallet and mempool.cs, with block connection and the pool's *)
(* acceptance and removal of transactions by the rest of the node as the   *)
(* environment; and the lock statements of all handlers run by concurrent  *)
(* workers.                                                                *)
(*                                                                         *)
(* Names are byte strings (valtype): sequences of byte values 0..255.      *)
(* An absent option of the options object is the empty sequence, a present *)
(* one a sequence holding its value.                                       *)
(***************************************************************************)
EXTENDS Integers, Sequences, FiniteSets, TLC

\* Bounds of the model.
MaxNames == 3
MaxCount == 3
MaxHeight == 2
MaxHistory == 2
MaxPool == 2
MaxOutputs == 2

VARIABLES
    index,        \* the name database: name -> CNameData
    chainHeight,  \* ::ChainActive().Height()
    cs_main,      \* holder of cs_main: "free" or "rpc"
    cs_wallet,    \* holder of the request wallet's cs_wallet
    pc,           \* position of the RPC worker
    req,          \* the request being served
    loc,          \* the handler's local variables
    ret,          \* the response of the last finished request
    io,           \* what the current request did to the index and the locks
    ibd,          \* ::ChainstateActive().IsInitialBlockDownload()
    fNameHistory, \* the -namehistory setting
    nameHistory,  \* the name history database: name -> sequence of CNameData
    pwallet,      \* the wallet of the request: <<>> when there is none, or
                  \* <<S>> with S the names whose address is the wallet's
    txFound,      \* GetTransaction finds the transactions of these heights
    pathOk,       \* the export destination can be opened and written
    mempool,      \* the transactions of the memory pool, in queryHashes order
    cs_mempool,   \* holder of mempool.cs
    outfile,      \* the export destination: what was written to it
    lastShow,     \* the previous answer of name_show, kept by its caller
    thr,          \* concurrent RPC workers: their operation and position
    lockOrder,    \* pairs <<held, acquired>> of locks seen so far
    cacheDirty    \* the names whose entry of the coins cache is not on disk

\* The node's settings and databases that no handler writes.
cfg == <<ibd, fNameHistory, nameHistory, pwallet, txFound, pathOk, mempool>>
\* State of the handlers other than name_scan and name_show.
aux == <<cs_mempool, outfile, lastShow, thr, lockOrder, cacheDirty>>
ext == <<cfg, aux>>

vars == <<index, chainHeight, cs_main, cs_wallet, pc, req, loc, ret, io,
          cfg, aux>>

-----------------------------------------------------------------------------
\* Data

\* "d", "d/bar", "d/" followed by byte 0xFF, "x/foo"
NameUniverse ==
    { <<100>>, <<100, 47, 98, 97, 114>>, <<100, 47, 255>>,
      <<120, 47, 102, 111, 111>> }

\* CNameData: the fields the RPCs read.
CNameData(h) == [height |-> h]

IndexStates(h) ==
    UNION { [S -> {CNameData(x) : x \in 1..h}] :
              S \in {T \in SUBSET NameUniverse : Cardinality(T) <= MaxNames} }

\* Patterns: a literal, searched anywhere or anchored at the start ("^lit").
Patterns ==
    { [anchored |-> TRUE, lit |-> <<100, 47>>],
      [anchored |-> FALSE, lit |-> <<47>>] }

\* A pattern that boost::xpressive does not compile: "(".
BadPattern == [anchored |-> FALSE, lit |-> <<40>>]

\* "" (the default) and "d/"
ScanStarts == { <<>>, <<100, 47>> }
ScanCounts == (-1)..MaxCount
ScanOptions ==
    [ minConf : {<<>>, <<0>>, <<2>>},
      maxConf : {<<>>, <<-1>>, <<0>>, <<1>>, <<MaxHeight + 2>>},
      prefix  : {<<>>, << <<100, 47>> >>},
      regexp  : {<<>>} \cup {<<p>> : p \in Patterns},
      unknown : {FALSE} ]
    \cup
    \* option objects with a key that no handler reads, or with a regexp
    \* that does not compile
    [ minConf : {<<>>, <<0>>},
      maxConf : {<<>>},
      prefix  : {<<>>},
      regexp  : {<<>>, <<BadPattern>>},
      unknown : BOOLEAN ]

\* The names whose address belongs to the wallet, when there is a wallet.
OwnedNames == { <<100>>, <<100, 47, 98, 97, 114>> }

NoReq == [op |-> "none"]
NoRet == [status |-> "none", value |-> <<>>]
NoIo == [locks |-> {}, iters |-> 0, seeks |-> 0, nexts |-> 0, gets |-> 0]
NoLoc ==
    [ count |-> 0, maxHeight |-> 0, minHeight |-> -1,
      iter |-> [key |-> <<>>, incl |-> TRUE],
      res |-> <<>>, skipped |-> {}, thrown |-> "", data |-> <<>>,
      fetchHeight |-> 0 ]
\* JSONRPCError (RPC_CLIENT_IN_INITIAL_DOWNLOAD, ...)
InitialDownload ==
    [status |-> "RPC_CLIENT_IN_INITIAL_DOWNLOAD", value |-> <<>>]
\* The settings, databases and handlers that a specification leaves aside.
NoHistory == [n \in {} |-> <<>>]
NoFile == [state |-> "none", text |-> <<>>]
NoThreads == [t \in {} |-> NoReq]

-----------------------------------------------------------------------------
\* The name index and its iterator

\* The index order on names: byte-wise lexicographic.
NameLess(a, b) ==
    \E i \in 1..(Len(b)) :
        /\ i <= Len(a) + 1
        /\ \A j \in 1..(i - 1) : a[j] = b[j]
        /\ (i = Len(a) + 1 \/ a[i] < b[i])

NameLeq(a, b) == a = b \/ NameLess(a, b)

\* CNameIterator: a cursor into the live index.
IterateNames == [key |-> <<>>, incl |-> TRUE]

seek(it, start) == [key |-> start, incl |-> TRUE]

IterRest(it) ==
    { n \in DOMAIN index :
        IF it.incl THEN NameLeq(it.key, n) ELSE NameLess(it.key, n) }

HasNext(it) == IterRest(it) # {}

NextName(it) == CHOOSE n \in IterRest(it) : \A m \in IterRest(it) : NameLeq(n, m)

next(it) == [key |-> NextName(it), incl |-> FALSE]

\* EncodeName (name, NameEncoding::UTF8): throws InvalidNameString for bytes
\* that are not valid UTF-8.  The names of the model hold 7-bit bytes and
\* the byte 0xFF, which no UTF-8 text contains.
IsValidUtf8(name) == \A i \in 1..Len(name) : name[i] < 128

\* boost::xpressive::regex_search for the patterns of the model.
regex_search(str, pat) ==
    \E i \in 1..(Len(str) + 1) :
        /\ pat.anchored => i = 1
        /\ i + Len(pat.lit) - 1 <= Len(str)
        /\ SubSeq(str, i, i + Len(pat.lit) - 1) = pat.lit

-----------------------------------------------------------------------------
\* Result assembly

\* Consensus::Params::rules->NameExpirationDepth: a depth that depends on
\* the height it is asked for.
NameExpirationDepth(h) == IF h < 100 THEN 1 ELSE 50

\* Variant: a name is expired only after expires_in has gone below zero.
addExpirationInfo_StrictExpired(height, curHeight) ==
    LET expireDepth == NameExpirationDepth(curHeight)
        expireHeight == height + expireDepth
        expiresIn == expireHeight - curHeight
    IN [height |-> height, expires_in |-> expiresIn, expired |-> (expiresIn < 0)]

addExpirationInfo(height, curHeight) ==
    LET expireDepth == NameExpirationDepth(curHeight)
        expireHeight == height + expireDepth
        expiresIn == expireHeight - curHeight
    IN [height |-> height, expires_in |-> expiresIn, expired |-> (expiresIn <= 0)]

\* Variant: the height field holds the number of confirmations.
getNameInfo_Confirmations(name, data, curHeight) ==
    [name |-> name]
        @@ [addExpirationInfo(data.height, curHeight)
                EXCEPT !.height = curHeight - data.height]

getNameInfo(name, data, curHeight) ==
    [name |-> name] @@ addExpirationInfo(data.height, curHeight)

\* wallet.getLock (): TRUE when it is the cs_wallet of a wallet, FALSE when
\* it is the null pointer, which LOCK and LOCK2 leave alone.
getLock(wallet) == wallet # <<>>
WalletLocks(wallet) == IF getLock(wallet) THEN {"cs_wallet"} ELSE {}

\* Variant: without a wallet the field is there, and false.
addOwnershipInfo_FalseWithoutWallet(name, wallet, data) ==
    data @@ [ismine |-> wallet # <<>> /\ name \in wallet[1]]

\* addOwnershipInfo: nothing without a wallet; with one, "ismine" tells
\* whether the address of the output is spendable by the wallet.
addOwnershipInfo(name, wallet, data) ==
    IF wallet = <<>> THEN data
    ELSE data @@ [ismine |-> name \in wallet[1]]

\* getNameInfo (options, name, data, wallet)
getNameInfoWallet(name, data, curHeight, wallet) ==
    addOwnershipInfo(name, wallet, getNameInfo(name, data, curHeight))

\* boost::xpressive::sregex::compile: TRUE when the pattern compiles, FALSE
\* when it throws regex_error (an unbalanced parenthesis).
sregex_compile(pat) == \A i \in 1..Len(pat.lit) : pat.lit[i] # 40

\* RPCTypeCheckObj (o, typesExpected, fAllowNull, fStrict): the types of the
\* model's options are right, so the only error left is the key that is not
\* expected, and only a strict check reports it.
RPCTypeCheckObj(o, fStrict) ==
    IF fStrict /\ o.unknown THEN "RPC_TYPE_ERROR" ELSE ""

\* EncodingFromOptionsJson: the type check of the encoding option is not
\* strict (fAllowNull = true, fStrict = false).
EncodingFromOptionsJson(o) == RPCTypeCheckObj(o, FALSE)

\* The option objects of name_show, name_history and name_pending: the model
\* tells apart the ones with a key that no handler reads.
QueryOptions == [unknown : BOOLEAN]

-----------------------------------------------------------------------------
\* name_scan

OptMinConf(o) == IF Len(o.minConf) > 0 THEN o.minConf[1] ELSE 1
OptMaxConf(o) == IF Len(o.maxConf) > 0 THEN o.maxConf[1] ELSE -1
OptPrefix(o) == IF Len(o.prefix) > 0 THEN o.prefix[1] ELSE <<>>
haveRegexp(o) == Len(o.regexp) > 0

\* The parameter checks of name_scan, in the order of the code: "" when the
\* options are accepted, "regex_error" when the exception of the regexp
\* compilation leaves the handler (no JSONRPCError is made of it).
\* Variant: the regex_error of the compilation is turned into a JSONRPCError.
ScanOptionError_CatchRegex(o) ==
    IF RPCTypeCheckObj(o, FALSE) # "" THEN RPCTypeCheckObj(o, FALSE)
    ELSE IF OptMinConf(o) < 1 THEN "RPC_INVALID_PARAMETER"
    ELSE IF Len(o.maxConf) > 0 /\ OptMaxConf(o) < 0 THEN "RPC_INVALID_PARAMETER"
    ELSE IF haveRegexp(o) /\ ~sregex_compile(o.regexp[1])
    THEN "RPC_INVALID_PARAMETER"
    ELSE ""

\* Variant: the check of the option object is strict.
ScanOptionError_Strict(o) ==
    IF RPCTypeCheckObj(o, TRUE) # "" THEN RPCTypeCheckObj(o, TRUE)
    ELSE IF OptMinConf(o) < 1 THEN "RPC_INVALID_PARAMETER"
    ELSE IF Len(o.maxConf) > 0 /\ OptMaxConf(o) < 0 THEN "RPC_INVALID_PARAMETER"
    ELSE IF haveRegexp(o) /\ ~sregex_compile(o.regexp[1]) THEN "regex_error"
    ELSE ""

ScanOptionError(o) ==
    IF RPCTypeCheckObj(o, FALSE) # "" THEN RPCTypeCheckObj(o, FALSE)
    ELSE IF OptMinConf(o) < 1 THEN "RPC_INVALID_PARAMETER"
    ELSE IF Len(o.maxConf) > 0 /\ OptMaxConf(o) < 0 THEN "RPC_INVALID_PARAMETER"
    ELSE IF haveRegexp(o) /\ ~sregex_compile(o.regexp[1]) THEN "regex_error"
    ELSE ""

\* Variant: only a negative count returns early.
ScanEarlyReturn_Negative(count) == count < 0

ScanEarlyReturn(count) == count <= 0

\* Variant: the window is one block short.
ScanMaxHeight_NoPlusOne(curHeight, minConf) == curHeight - minConf

ScanMaxHeight(curHeight, minConf) == curHeight - minConf + 1

ScanMinHeight(curHeight, maxConf) ==
    IF maxConf >= 0 THEN curHeight - maxConf + 1 ELSE -1

\* Variant: the iterator is never positioned at start.
ScanIterInit_NoSeek(start) == IterateNames

ScanIterInit(start) == seek(IterateNames, start)

\* Variants: the loop stops one entry early, or runs for one more.
ScanContinue_StopEarly(count) == count > 1
ScanContinue_OneMore(count) == count >= 0

ScanContinue(count) == count > 0

\* TRUE when the entry is skipped by the height window.
HeightSkip(height, maxHeight, minHeight) ==
    IF height > maxHeight THEN TRUE
    ELSE IF minHeight >= 0 /\ height < minHeight THEN TRUE
    ELSE FALSE

\* Variant: the prefix is compared without the check of the name's size.
PrefixSkip_NoSizeCheck(name, prefix) ==
    ~(\A i \in 1..Len(prefix) : i <= Len(name) => prefix[i] = name[i])

\* TRUE when the entry is skipped by the prefix filter.
PrefixSkip(name, prefix) ==
    IF Len(name) < Len(prefix) THEN TRUE
    ELSE IF ~(\A i \in 1..Len(prefix) : prefix[i] = name[i]) THEN TRUE
    ELSE FALSE

\* Variants: the name is encoded whether or not a regexp is given; the
\* InvalidNameString of EncodeName is not caught.
RegexpOutcome_AlwaysEncode(name, o) ==
    IF ~IsValidUtf8(name) THEN "utf8"
    ELSE IF haveRegexp(o) /\ ~regex_search(name, o.regexp[1]) THEN "regexp"
    ELSE "pass"

RegexpOutcome_Rethrow(name, o) ==
    IF haveRegexp(o)
    THEN IF ~IsValidUtf8(name) THEN "throw"
         ELSE IF ~regex_search(name, o.regexp[1]) THEN "regexp"
         ELSE "pass"
    ELSE "pass"

\* The regexp block of the loop: "pass", "regexp" or "utf8" (skipped), or
\* "throw" when an exception leaves the block.
RegexpOutcome(name, o) ==
    IF haveRegexp(o)
    THEN IF ~IsValidUtf8(name) THEN "utf8"
         ELSE IF ~regex_search(name, o.regexp[1]) THEN "regexp"
         ELSE "pass"
    ELSE "pass"

\* The outcome of the loop body for one entry.
ScanFilter(name, data, l, o) ==
    IF HeightSkip(data.height, l.maxHeight, l.minHeight) THEN "height"
    ELSE IF PrefixSkip(name, OptPrefix(o)) THEN "prefix"
    ELSE RegexpOutcome(name, o)

\* Variant: a skipped entry takes from the count as well.
ScanBody_DecOnSkip(l, o) ==
    LET name == NextName(l.iter)
        data == index[name]
        why == ScanFilter(name, data, l, o)
        moved == [l EXCEPT !.iter = next(l.iter), !.count = l.count - 1]
    IN IF why = "pass"
       THEN [moved EXCEPT !.res = Append(l.res, getNameInfoWallet(name, data, chainHeight, pwallet))]
       ELSE IF why = "throw"
       THEN [moved EXCEPT !.thrown = "InvalidNameString"]
       ELSE [moved EXCEPT !.skipped = l.skipped \cup {[name |-> name, why |-> why]}]

\* Variant: an entry that a filter skips is not taken from the iterator.
ScanBody_StuckOnSkip(l, o) ==
    LET name == NextName(l.iter)
        data == index[name]
        why == ScanFilter(name, data, l, o)
        moved == [l EXCEPT !.iter = next(l.iter)]
    IN IF why = "pass"
       THEN [moved EXCEPT !.res = Append(l.res, getNameInfoWallet(name, data, chainHeight, pwallet)),
                          !.count = l.count - 1]
       ELSE IF why = "throw"
       THEN [moved EXCEPT !.thrown = "InvalidNameString"]
       ELSE [l EXCEPT !.skipped = l.skipped \cup {[name |-> name, why |-> why]}]

\* One iteration of the loop, given that the loop condition held: the
\* iterator has moved to the next entry.
ScanBody(l, o) ==
    LET name == NextName(l.iter)
        data == index[name]
        why == ScanFilter(name, data, l, o)
        moved == [l EXCEPT !.iter = next(l.iter)]
    IN IF why = "pass"
       THEN [moved EXCEPT !.res = Append(l.res, getNameInfoWallet(name, data, chainHeight, pwallet)),
                          !.count = l.count - 1]
       ELSE IF why = "throw"
       THEN [moved EXCEPT !.thrown = "InvalidNameString"]
       ELSE [moved EXCEPT !.skipped = l.skipped \cup {[name |-> name, why |-> why]}]

ScanLoopCond(l) == ScanContinue(l.count) /\ HasNext(l.iter) /\ l.thrown = ""

\* The locals of name_scan after the locks are taken and the iterator is
\* positioned.
ScanLocals(start, count, o) ==
    [NoLoc EXCEPT !.count = count,
                  !.maxHeight = ScanMaxHeight(chainHeight, OptMinConf(o)),
                  !.minHeight = ScanMinHeight(chainHeight, OptMaxConf(o)),
                  !.iter = ScanIterInit(start)]

\* The loop run to its end from the locals l.
RECURSIVE ScanRun(_, _)
ScanRun(l, o) == IF ScanLoopCond(l) THEN ScanRun(ScanBody(l, o), o) ELSE l

name_scan_parse ==
    /\ pc = "idle"
    /\ \E start \in ScanStarts, count \in ScanCounts, o \in ScanOptions :
        /\ req' = [op |-> "name_scan", start |-> start, count |-> count, options |-> o]
        /\ IF ibd
           THEN /\ ret' = InitialDownload
                /\ pc' = "done"
           ELSE IF ScanOptionError(o) # ""
           THEN /\ ret' = [status |-> ScanOptionError(o), value |-> <<>>]
                /\ pc' = "done"
           ELSE IF ScanEarlyReturn(count)
           THEN /\ ret' = [status |-> "ok", value |-> <<>>]
                /\ pc' = "done"
           ELSE /\ ret' = NoRet
                /\ pc' = "scan_lock"
    /\ loc' = NoLoc
    /\ io' = NoIo
    /\ UNCHANGED <<index, chainHeight, cs_main, cs_wallet>>
    /\ UNCHANGED ext

name_scan_lock ==
    /\ pc = "scan_lock"
    /\ cs_main = "free"
    /\ getLock(pwallet) => cs_wallet = "free"
    /\ cs_main' = "rpc"
    /\ cs_wallet' = (IF getLock(pwallet) THEN "rpc" ELSE cs_wallet)
    /\ loc' = ScanLocals(req.start, req.count, req.options)
    /\ io' = [io EXCEPT !.locks = {"cs_main"} \cup WalletLocks(pwallet), !.iters = 1, !.seeks = 1]
    /\ pc' = "scan_loop"
    /\ UNCHANGED <<index, chainHeight, req, ret>>
    /\ UNCHANGED ext

name_scan_step ==
    /\ pc = "scan_loop"
    /\ ScanLoopCond(loc)
    /\ loc' = ScanBody(loc, req.options)
    /\ io' = [io EXCEPT !.nexts = io.nexts + 1]
    /\ UNCHANGED <<index, chainHeight, cs_main, cs_wallet, pc, req, ret>>
    /\ UNCHANGED ext

name_scan_return ==
    /\ pc = "scan_loop"
    /\ ~ScanLoopCond(loc)
    /\ ret' = IF loc.thrown # ""
              THEN [status |-> loc.thrown, value |-> <<>>]
              ELSE [status |-> "ok", value |-> loc.res]
    /\ cs_main' = "free"
    /\ cs_wallet' = "free"
    /\ pc' = "done"
    /\ UNCHANGED <<index, chainHeight, req, loc, io>>
    /\ UNCHANGED ext

-----------------------------------------------------------------------------
\* name_show

name_show_parse ==
    /\ pc = "idle"
    /\ \E name \in NameUniverse, o \in QueryOptions :
        /\ req' = [op |-> "name_show", name |-> name, options |-> o]
        /\ IF ibd
           THEN ret' = InitialDownload /\ pc' = "done"
           ELSE IF EncodingFromOptionsJson(o) # ""
           THEN /\ ret' = [status |-> EncodingFromOptionsJson(o), value |-> <<>>]
                /\ pc' = "done"
           ELSE ret' = NoRet /\ pc' = "show_lock"
    /\ loc' = NoLoc
    /\ io' = NoIo
    /\ UNCHANGED <<index, chainHeight, cs_main, cs_wallet>>
    /\ UNCHANGED ext

\* LOCK (cs_main) of the inner block.
name_show_lock ==
    /\ pc = "show_lock"
    /\ cs_main = "free"
    /\ cs_main' = "rpc"
    /\ io' = [io EXCEPT !.locks = io.locks \cup {"cs_main"}]
    /\ pc' = "show_get"
    /\ UNCHANGED <<index, chainHeight, cs_wallet, req, loc, ret>>
    /\ UNCHANGED ext

\* GetName under cs_main; the lock is released where the block ends, by
\* the throw as well.
name_show_get ==
    /\ pc = "show_get"
    /\ io' = [io EXCEPT !.gets = io.gets + 1]
    /\ cs_main' = "free"
    /\ IF req.name \in DOMAIN index
       THEN /\ loc' = [loc EXCEPT !.data = <<index[req.name]>>,
                                  !.fetchHeight = chainHeight]
            /\ pc' = "show_info"
            /\ ret' = ret
       ELSE /\ ret' = [status |-> "RPC_WALLET_ERROR", value |-> <<>>]
            /\ pc' = "done"
            /\ loc' = loc
    /\ UNCHANGED <<index, chainHeight, cs_wallet, req>>
    /\ UNCHANGED ext

\* LOCK (wallet.getLock ()), getNameInfo and the return.
name_show_info ==
    /\ pc = "show_info"
    /\ getLock(pwallet) => cs_wallet = "free"
    /\ io' = [io EXCEPT !.locks = io.locks \cup WalletLocks(pwallet)]
    /\ ret' = [status |-> "ok",
               value |-> <<getNameInfoWallet(req.name, loc.data[1], chainHeight, pwallet)>>]
    /\ pc' = "done"
    /\ UNCHANGED <<index, chainHeight, cs_main, cs_wallet, req, loc>>
    /\ UNCHANGED ext

-----------------------------------------------------------------------------
\* The response is handed to the caller; the worker takes the next request.
Respond ==
    /\ pc = "done"
    /\ pc' = "idle"
    /\ req' = NoReq
    /\ loc' = NoLoc
    /\ ret' = NoRet
    /\ io' = NoIo
    /\ UNCHANGED <<index, chainHeight, cs_main, cs_wallet>>
    /\ UNCHANGED ext

\* The rest of the node: a block is connected under cs_main, and may
\* register or update one name at the new height.
ConnectBlock ==
    /\ cs_main = "free"
    /\ chainHeight < MaxHeight
    /\ chainHeight' = chainHeight + 1
    /\ \E U \in {T \in SUBSET NameUniverse : Cardinality(T) <= 1} :
        /\ Cardinality(DOMAIN index \cup U) <= MaxNames
        /\ index' = [n \in DOMAIN index \cup U |->
                        IF n \in U THEN CNameData(chainHeight + 1) ELSE index[n]]
    /\ UNCHANGED <<cs_main, cs_wallet, pc, req, loc, ret, io>>
    /\ UNCHANGED ext

-----------------------------------------------------------------------------
Init ==
    /\ chainHeight \in 1..MaxHeight
    /\ index \in IndexStates(chainHeight)
    /\ cs_main = "free"
    /\ cs_wallet = "free"
    /\ pc = "idle"
    /\ req = NoReq
    /\ loc = NoLoc
    /\ ret = NoRet
    /\ io = NoIo
    /\ ibd \in BOOLEAN
    /\ fNameHistory = FALSE
    /\ nameHistory = NoHistory
    /\ txFound = {}
    /\ pathOk = TRUE
    /\ mempool = <<>>
    /\ pwallet = <<OwnedNames>>
    /\ cs_mempool = "free"
    /\ outfile = NoFile
    /\ lastShow = NoRet
    /\ thr = NoThreads
    /\ lockOrder = {}
    /\ cacheDirty = {}

Next ==
    \/ name_scan_parse
    \/ name_scan_lock
    \/ name_scan_step
    \/ name_scan_return
    \/ name_show_parse
    \/ name_show_lock
    \/ name_show_get
    \/ name_show_info
    \/ Respond
    \/ ConnectBlock

Spec == Init /\ [][Next]_vars

-----------------------------------------------------------------------------
\* Repeated name_show calls: the caller keeps the answer of a call, with the
\* index entry it was made from and the index as it is at the response, and
\* calls again.
RespondShow ==
    /\ pc = "done"
    /\ req.op = "name_show"
    /\ pc' = "idle"
    /\ lastShow' = IF ret.status = "ok"
                   THEN [status |-> "ok", value |-> ret.value,
                         name |-> req.name, data |-> loc.data,
                         index |-> index]
                   ELSE lastShow
    /\ req' = NoReq
    /\ loc' = NoLoc
    /\ ret' = NoRet
    /\ io' = NoIo
    /\ UNCHANGED <<index, chainHeight, cs_main, cs_wallet, cfg>>
    /\ UNCHANGED <<cs_mempool, outfile, thr, lockOrder, cacheDirty>>

NextShow ==
    \/ name_show_parse
    \/ name_show_lock
    \/ name_show_get
    \/ name_show_info
    \/ RespondShow
    \/ ConnectBlock

SpecShow == Init /\ [][NextShow]_vars

-----------------------------------------------------------------------------
\* Reference definitions for the properties of name_scan

Min(a, b) == IF a <= b THEN a ELSE b

\* The names of a set in index order.
RECURSIVE InOrder(_)
InOrder(S) ==
    IF S = {} THEN <<>>
    ELSE LET m == CHOOSE x \in S : \A y \in S : NameLeq(x, y)
         IN <<m>> \o InOrder(S \ {m})

FirstN(seq, n) == SubSeq(seq, 1, Min(n, Len(seq)))

ResNames(res) == [i \in 1..Len(res) |-> res[i].name]

\* The confirmation window of the options at chain height cur.
InWindow(h, cur, o) ==
    /\ h <= cur - OptMinConf(o) + 1
    /\ Len(o.maxConf) > 0 => h >= cur - o.maxConf[1] + 1

StartsWith(name, prefix) ==
    /\ Len(prefix) <= Len(name)
    /\ SubSeq(name, 1, Len(prefix)) = prefix

RegexpMatches(name, o) ==
    Len(o.regexp) > 0 => (IsValidUtf8(name) /\ regex_search(name, o.regexp[1]))

\* The index entries at or after start that pass every active filter.
Matching(start, o) ==
    { n \in DOMAIN index :
        /\ NameLeq(start, n)
        /\ InWindow(index[n].height, chainHeight, o)
        /\ StartsWith(n, OptPrefix(o))
        /\ RegexpMatches(n, o) }

InScanLoop == pc = "scan_loop"

\* The loop has ended and name_scan is about to return, the locks still held.
ScanFinished == pc = "scan_loop" /\ ~ScanLoopCond(loc)

\* The entries the iterator has handed out so far.
Visited ==
    { n \in DOMAIN index :
        NameLeq(req.start, n) /\ ~loc.iter.incl /\ NameLeq(n, loc.iter.key) }

SkippedFor(why) == { s.name : s \in {t \in loc.skipped : t.why = why} }

-----------------------------------------------------------------------------
\* C1: when name_scan returns, its result is exactly the first
\* min(count, k) of the k index entries, in index order, whose name is
\* >= start and that pass the height window, the prefix and the regexp;
\* each result carries the entry's height, and the response is that result.
C1_ScanExact ==
    /\ ScanFinished =>
        /\ ResNames(loc.res) =
              FirstN(InOrder(Matching(req.start, req.options)), req.count)
        /\ \A i \in 1..Len(loc.res) :
              loc.res[i].height = index[loc.res[i].name].height
    /\ (pc = "done" /\ req.op = "name_scan" /\ req.count > 0 /\ ret.status = "ok")
          => ret.value = loc.res

\* A scan that ran out of entries before its count, having skipped some.
C1_Witness ==
    /\ ScanFinished
    /\ Len(loc.res) >= 1
    /\ Len(loc.res) < req.count
    /\ loc.skipped # {}
    /\ req.start # <<>>

\* C2: name_scan returns at most N = count elements, and throughout the
\* loop the records appended plus the remaining budget equal N; every
\* entry handed out by the iterator was either appended or skipped, and
\* only the appended ones took from the budget.
C2_CountBudget ==
    /\ InScanLoop =>
        /\ Len(loc.res) + loc.count = req.count
        /\ Len(loc.res) <= req.count
        /\ io.nexts = Len(loc.res) + Cardinality(loc.skipped)
    /\ (pc = "done" /\ req.op = "name_scan" /\ req.count >= 0)
          => Len(ret.value) <= req.count

\* The budget is used up although entries were skipped on the way.
C2_Witness ==
    /\ ScanFinished
    /\ loc.count = 0
    /\ Len(loc.res) = req.count
    /\ Cardinality(loc.skipped) >= 2

\* The two pages of a scan of count N + M - 1 and of N + M.
ScanPage(start, count) == ScanRun(ScanLocals(start, count, req.options), req.options).res

LastName(res) == res[Len(res)].name

\* C3 as stated: scan(X, N) followed by scan(lastReturnedName, M), the
\* repeated last name dropped once, equals scan(X, N + M).
C3_PaginationAsStated ==
    ScanFinished =>
        \A N \in 1..(req.count - 1) :
            LET M == req.count - N
                p1 == ScanPage(req.start, N)
            IN Len(p1) >= 1 =>
                LET p2 == ScanPage(LastName(p1), M)
                IN p1 \o Tail(p2) = loc.res

\* C3 amended: for N >= 1, M >= 1 and a first page that is not empty, the
\* follow-up page starts with the last name of the first one, and the
\* first page followed by the rest of the follow-up equals
\* scan(X, N + M - 1).
C3_Pagination ==
    ScanFinished =>
        \A N \in 1..req.count :
            LET M == req.count + 1 - N
                p1 == ScanPage(req.start, N)
            IN Len(p1) >= 1 =>
                LET p2 == ScanPage(LastName(p1), M)
                IN /\ Len(p2) >= 1
                   /\ p2[1] = p1[Len(p1)]
                   /\ p1 \o Tail(p2) = loc.res

\* A scan of three entries from "d/" on, which the pages of 1 + 3, 2 + 2
\* and 3 + 1 cover.
C3_Witness ==
    /\ ScanFinished
    /\ req.count = 3
    /\ Len(loc.res) = 3
    /\ req.start = <<100, 47>>

\* C4: a name_scan with count <= 0 never takes cs_main or cs_wallet,
\* creates no iterator and does no seek or next; with accepted options it
\* returns the empty array.
C4_NoWorkForCountZero ==
    (req.op = "name_scan" /\ req.count <= 0 /\ ~ibd) =>
        /\ pc = "done"
        /\ io = NoIo
        /\ cs_main = "free" /\ cs_wallet = "free"
        /\ loc = NoLoc
        /\ ScanOptionError(req.options) = ""
              => ret = [status |-> "ok", value |-> <<>>]

C4_Witness ==
    /\ pc = "done"
    /\ req.op = "name_scan"
    /\ req.count = 0
    /\ req.options.regexp # <<>>
    /\ ret = [status |-> "ok", value |-> <<>>]
    /\ DOMAIN index # {}

\* C5: every record in the result of name_scan has a height h with
\* h <= currentHeight - minConf + 1 and, when maxConf is given,
\* h >= currentHeight - maxConf + 1; the entries the height filter
\* rejects are outside that window.
C5_HeightWindow ==
    InScanLoop =>
        /\ \A i \in 1..Len(loc.res) :
              /\ InWindow(loc.res[i].height, chainHeight, req.options)
              /\ chainHeight - loc.res[i].height + 1 >= OptMinConf(req.options)
              /\ Len(req.options.maxConf) > 0 =>
                    chainHeight - loc.res[i].height + 1 <= req.options.maxConf[1]
        /\ \A n \in SkippedFor("height") :
              ~InWindow(index[n].height, chainHeight, req.options)

\* maxConf above currentHeight + 1: one entry kept, one rejected by minConf.
C5_Witness ==
    /\ ScanFinished
    /\ req.options.maxConf = <<MaxHeight + 2>>
    /\ chainHeight = MaxHeight
    /\ Len(loc.res) >= 1
    /\ SkippedFor("height") # {}

\* C6: every name in the result of name_scan starts with the bytes of the
\* prefix, the entries the prefix filter rejects do not (a name shorter
\* than the prefix is rejected), the empty prefix rejects nothing, and an
\* entry with the prefix that is not in the result was rejected by the
\* height window or the regexp.
C6_PrefixFilter ==
    InScanLoop =>
        /\ \A i \in 1..Len(loc.res) :
              StartsWith(loc.res[i].name, OptPrefix(req.options))
        /\ \A n \in SkippedFor("prefix") : ~StartsWith(n, OptPrefix(req.options))
        /\ \A n \in Visited :
              (Len(n) < Len(OptPrefix(req.options)))
                 => n \notin {loc.res[i].name : i \in 1..Len(loc.res)}
        /\ OptPrefix(req.options) = <<>> => SkippedFor("prefix") = {}
        /\ \A n \in Visited :
              ( /\ StartsWith(n, OptPrefix(req.options))
                /\ n \notin {loc.res[i].name : i \in 1..Len(loc.res)} )
                 => n \in SkippedFor("height") \cup SkippedFor("regexp")
                                               \cup SkippedFor("utf8")

\* prefix "d/": "d" (shorter) and "x/foo" dropped, "d/bar" kept.
C6_Witness ==
    /\ ScanFinished
    /\ OptPrefix(req.options) = <<100, 47>>
    /\ SkippedFor("prefix") = { <<100>>, <<120, 47, 102, 111, 111>> }
    /\ ResNames(loc.res) = << <<100, 47, 98, 97, 114>> >>

\* C7: an absent regexp, an absent prefix and an absent maxConf each
\* reject nothing; with minConf 1 and no maxConf no entry at or below the
\* current height is rejected for its height; with all of them absent the
\* result is the first count entries at or after start, names that are
\* not UTF-8 included.
C7_FilterIdentity ==
    InScanLoop =>
        /\ req.options.regexp = <<>> =>
              SkippedFor("regexp") \cup SkippedFor("utf8") = {}
        /\ req.options.prefix = <<>> => SkippedFor("prefix") = {}
        /\ req.options.maxConf = <<>> =>
              \A n \in SkippedFor("height") :
                  index[n].height > chainHeight - OptMinConf(req.options) + 1
        /\ (req.options.maxConf = <<>> /\ OptMinConf(req.options) = 1) =>
              SkippedFor("height") = {}
        /\ ( /\ req.options.regexp = <<>> /\ req.options.prefix = <<>>
             /\ req.options.maxConf = <<>> /\ OptMinConf(req.options) = 1
             /\ ScanFinished ) =>
              /\ loc.skipped = {}
              /\ ResNames(loc.res) =
                    FirstN(InOrder({n \in DOMAIN index : NameLeq(req.start, n)}),
                           req.count)

\* No filter given: a name that is not UTF-8 is in the result.
C7_Witness ==
    /\ ScanFinished
    /\ req.options = [minConf |-> <<>>, maxConf |-> <<>>, prefix |-> <<>>,
                      regexp |-> <<>>, unknown |-> FALSE]
    /\ \E i \in 1..Len(loc.res) : ~IsValidUtf8(loc.res[i].name)
    /\ Len(loc.res) >= 2

\* C8: with a regexp, an entry whose name is not UTF-8 and that reaches
\* the regexp filter is skipped: it is not in the result, it took nothing
\* from the budget, no exception left the loop and the scan ends "ok".
C8_Utf8Skip ==
    /\ (InScanLoop /\ req.options.regexp # <<>>) =>
          /\ loc.thrown = ""
          /\ \A i \in 1..Len(loc.res) : IsValidUtf8(loc.res[i].name)
          /\ \A n \in Visited :
                ~IsValidUtf8(n) => n \in {s.name : s \in loc.skipped}
          /\ Len(loc.res) + loc.count = req.count
    /\ ( /\ pc = "done" /\ req.op = "name_scan" /\ ~ibd
         /\ ScanOptionError(req.options) = "" ) => ret.status = "ok"

\* A name that is not UTF-8 was skipped and a later entry was returned.
C8_Witness ==
    /\ ScanFinished
    /\ req.options.regexp # <<>>
    /\ SkippedFor("utf8") # {}
    /\ \E i \in 1..Len(loc.res) :
          \A n \in SkippedFor("utf8") : NameLess(n, loc.res[i].name)

\* C9: the names in the result of name_scan are strictly increasing in
\* the index order (so none appears twice) and none is below start.
C9_IndexOrder ==
    InScanLoop =>
        /\ \A i \in 1..Len(loc.res) : \A j \in 1..Len(loc.res) :
              i < j => NameLess(loc.res[i].name, loc.res[j].name)
        /\ \A i \in 1..Len(loc.res) : NameLeq(req.start, loc.res[i].name)

\* A result of two names, with an entry of the index below start.
C9_Witness ==
    /\ ScanFinished
    /\ Len(loc.res) = 2
    /\ \E n \in DOMAIN index : NameLess(n, req.start)

\* C10: a request that has read the index holds cs_main until its result
\* is assembled, and the expiration fields of name_show are computed for
\* the chain height at which the record was read.
C10_IndexLockHeld ==
    /\ (pc \notin {"idle", "done"} /\ io.gets + io.iters > 0) => cs_main = "rpc"
    /\ (pc = "done" /\ req.op = "name_show" /\ ret.status = "ok") =>
          ret.value[1] = getNameInfoWallet(req.name, loc.data[1], loc.fetchHeight, pwallet)

\* name_show finished with expiration fields of a later height.
C10_Witness ==
    /\ pc = "done"
    /\ req.op = "name_show"
    /\ ret.status = "ok"
    /\ ret.value[1] # getNameInfoWallet(req.name, loc.data[1], loc.fetchHeight, pwallet)

-----------------------------------------------------------------------------
\* name_history

\* Variant: the initial-download check comes first.
HistoryEntryError_SyncFirst ==
    IF ibd THEN "RPC_CLIENT_IN_INITIAL_DOWNLOAD"
    ELSE IF ~fNameHistory THEN "std::runtime_error"
    ELSE ""

\* The checks before the name is decoded: -namehistory, then the initial
\* block download.
HistoryEntryError ==
    IF ~fNameHistory THEN "std::runtime_error"
    ELSE IF ibd THEN "RPC_CLIENT_IN_INITIAL_DOWNLOAD"
    ELSE ""

\* CCoinsViewCache::GetNameHistory: false, and the history left empty, for a
\* name without stored history.
GetNameHistory(name) ==
    IF name \in DOMAIN nameHistory THEN nameHistory[name] ELSE <<>>

name_history_parse ==
    /\ pc = "idle"
    /\ \E name \in NameUniverse, o \in QueryOptions :
        /\ req' = [op |-> "name_history", name |-> name, options |-> o]
        /\ IF HistoryEntryError # ""
           THEN /\ ret' = [status |-> HistoryEntryError, value |-> <<>>]
                /\ pc' = "done"
           ELSE IF EncodingFromOptionsJson(o) # ""
           THEN /\ ret' = [status |-> EncodingFromOptionsJson(o), value |-> <<>>]
                /\ pc' = "done"
           ELSE ret' = NoRet /\ pc' = "history_lock"
    /\ loc' = NoLoc
    /\ io' = NoIo
    /\ UNCHANGED <<index, chainHeight, cs_main, cs_wallet, ext>>

\* LOCK (cs_main) of the inner block.
name_history_lock ==
    /\ pc = "history_lock"
    /\ cs_main = "free"
    /\ cs_main' = "rpc"
    /\ io' = [io EXCEPT !.locks = io.locks \cup {"cs_main"}]
    /\ pc' = "history_get"
    /\ UNCHANGED <<index, chainHeight, cs_wallet, req, loc, ret, ext>>

\* GetName and GetNameHistory under cs_main; the lock is released where the
\* block ends, by the throw as well.
name_history_get ==
    /\ pc = "history_get"
    /\ cs_main' = "free"
    /\ IF req.name \in DOMAIN index
       THEN /\ loc' = [history |-> GetNameHistory(req.name)]
                        @@ [loc EXCEPT !.data = <<index[req.name]>>,
                                       !.fetchHeight = chainHeight]
            /\ io' = [io EXCEPT !.gets = io.gets + 2]
            /\ pc' = "history_info"
            /\ ret' = ret
       ELSE /\ ret' = [status |-> "RPC_WALLET_ERROR", value |-> <<>>]
            /\ io' = [io EXCEPT !.gets = io.gets + 1]
            /\ pc' = "done"
            /\ loc' = loc
    /\ UNCHANGED <<index, chainHeight, cs_wallet, req, ext>>

\* LOCK (wallet.getLock ()), one getNameInfo per history entry and one for
\* the current data, and the return.
name_history_info ==
    /\ pc = "history_info"
    /\ getLock(pwallet) => cs_wallet = "free"
    /\ io' = [io EXCEPT !.locks = io.locks \cup WalletLocks(pwallet)]
    /\ ret' = [status |-> "ok",
               value |-> [i \in 1..Len(loc.history) |->
                             getNameInfoWallet(req.name, loc.history[i], chainHeight, pwallet)]
                         \o <<getNameInfoWallet(req.name, loc.data[1], chainHeight, pwallet)>>]
    /\ pc' = "done"
    /\ UNCHANGED <<index, chainHeight, cs_main, cs_wallet, req, loc, ext>>

\* The rest of the node with -namehistory: a connected block that updates a
\* name pushes the data it replaces onto the name's history.
ConnectBlockHistory ==
    /\ cs_main = "free"
    /\ chainHeight < MaxHistory + 1
    /\ chainHeight' = chainHeight + 1
    /\ \E U \in {T \in SUBSET NameUniverse : Cardinality(T) <= 1} :
        /\ Cardinality(DOMAIN index \cup U) <= MaxNames
        /\ index' = [n \in DOMAIN index \cup U |->
                        IF n \in U THEN CNameData(chainHeight + 1) ELSE index[n]]
        /\ nameHistory' =
              IF fNameHistory
              THEN [n \in DOMAIN nameHistory \cup (U \cap DOMAIN index) |->
                       IF n \in U
                       THEN GetNameHistory(n) \o <<index[n]>>
                       ELSE nameHistory[n]]
              ELSE nameHistory
    /\ UNCHANGED <<cs_main, cs_wallet, pc, req, loc, ret, io, aux>>
    /\ UNCHANGED <<ibd, fNameHistory, pwallet, txFound, pathOk, mempool>>

\* Histories of a name whose current data has height h: update heights in
\* increasing order, all before h.
RECURSIVE Increasing(_)
Increasing(hs) ==
    Len(hs) < 2 \/ (hs[1] < hs[2] /\ Increasing(Tail(hs)))

HistoriesBefore(h) ==
    { [i \in 1..Len(hs) |-> CNameData(hs[i])] :
        hs \in { x \in UNION {[1..k -> 1..(h - 1)] : k \in 0..MaxHistory} :
                   Increasing(x) } }

InitHistory ==
    /\ chainHeight \in 1..(MaxHistory + 1)
    /\ index \in IndexStates(chainHeight)
    /\ ibd \in BOOLEAN
    /\ fNameHistory \in BOOLEAN
    /\ IF fNameHistory
       THEN \E S \in SUBSET DOMAIN index :
               nameHistory \in
                   { f \in [S -> UNION {HistoriesBefore(h) : h \in 1..chainHeight}] :
                       \A n \in S : /\ f[n] \in HistoriesBefore(index[n].height)
                                    /\ f[n] # <<>> }
       ELSE nameHistory = NoHistory
    /\ cs_main = "free" /\ cs_wallet = "free" /\ cs_mempool = "free"
    /\ pc = "idle" /\ req = NoReq /\ loc = NoLoc /\ ret = NoRet /\ io = NoIo
    /\ txFound = {} /\ pathOk = TRUE /\ mempool = <<>>
    /\ pwallet = <<OwnedNames>>
    /\ outfile = NoFile /\ lastShow = NoRet /\ thr = NoThreads
    /\ lockOrder = {}
    /\ cacheDirty = {}

NextHistory ==
    \/ name_history_parse
    \/ name_history_lock
    \/ name_history_get
    \/ name_history_info
    \/ Respond
    \/ ConnectBlockHistory

SpecHistory == InitHistory /\ [][NextHistory]_vars

-----------------------------------------------------------------------------
\* name_pending

\* The names of the pool's name operations: "d" and "d/bar".
PoolNames == { <<100>>, <<100, 47, 98, 97, 114>> }

\* CNameScript of an output: not a name operation, or NAME_NEW (which
\* carries a hash, not a name), or a first update or update of a name.
TxOutputs ==
    { [op |-> "none", name |-> <<>>], [op |-> "OP_NAME_NEW", name |-> <<>>] }
    \cup [op : {"OP_NAME_FIRSTUPDATE", "OP_NAME_UPDATE"}, name : PoolNames]

isNameOp(out) == out.op # "none"
isAnyUpdate(out) == out.op \in {"OP_NAME_FIRSTUPDATE", "OP_NAME_UPDATE"}

\* Transactions the pool accepts: name operations only in Namecoin
\* transactions, and at most one name output each.
PoolTxs ==
    { tx \in [ namecoin : BOOLEAN,
               vout : UNION {[1..k -> TxOutputs] : k \in 1..MaxOutputs} ] :
        /\ Cardinality({n \in DOMAIN tx.vout : isNameOp(tx.vout[n])}) <= 1
        /\ ~tx.namecoin => \A n \in DOMAIN tx.vout : ~isNameOp(tx.vout[n]) }

\* Variant: only updates are relevant, first updates are not.
PendingRelevant_UpdateOnly(out, hasNameFilter, nameFilter) ==
    /\ isNameOp(out) /\ out.op = "OP_NAME_UPDATE"
    /\ hasNameFilter => out.name = nameFilter

\* Variant: every name operation is relevant, NAME_NEW included.
PendingRelevant_AnyNameOp(out, hasNameFilter, nameFilter) ==
    /\ isNameOp(out)
    /\ hasNameFilter => out.name = nameFilter

\* The two tests of the inner loop that do not "continue".
PendingRelevant(out, hasNameFilter, nameFilter) ==
    /\ isNameOp(out) /\ isAnyUpdate(out)
    /\ hasNameFilter => out.name = nameFilter

\* The switch on op.getNameOp (); anything else is assert (false).
PendingOpLabel(op) ==
    CASE op = "OP_NAME_FIRSTUPDATE" -> "name_firstupdate"
      [] op = "OP_NAME_UPDATE" -> "name_update"
      [] OTHER -> "assert"

\* The inner loop over tx->vout from output n on: the records pushed.
RECURSIVE PendingOutputs(_, _, _, _, _)
PendingOutputs(tx, txid, n, hasNameFilter, nameFilter) ==
    IF n > Len(tx.vout) THEN <<>>
    ELSE (IF PendingRelevant(tx.vout[n], hasNameFilter, nameFilter)
          THEN << [op |-> PendingOpLabel(tx.vout[n].op)]
                  @@ addOwnershipInfo(tx.vout[n].name, pwallet,
                        [ name |-> tx.vout[n].name, txid |-> txid,
                          vout |-> n ]) >>
          ELSE <<>>)
         \o PendingOutputs(tx, txid, n + 1, hasNameFilter, nameFilter)

\* mempool.queryHashes: the hashes of the pool's transactions.  The pool
\* holds no transaction twice, and the model takes a transaction for its
\* hash.
queryHashes(pool) == pool

\* mempool.get: <<tx>>, or <<>> (the null pointer) when the pool does not
\* hold the hash.
mempool_get(pool, txHash) ==
    IF \E j \in 1..Len(pool) : pool[j] = txHash THEN <<txHash>> ELSE <<>>

\* RPCTypeCheck; there is no test of the initial block download.
name_pending_parse ==
    /\ pc = "idle"
    /\ \E f \in {<<>>} \cup {<<n>> : n \in NameUniverse}, ok \in BOOLEAN,
          o \in QueryOptions :
        /\ f = <<>> => ok
        /\ req' = [op |-> "name_pending", name |-> f, decodes |-> ok,
                   options |-> o]
    /\ pc' = "pending_lock"
    /\ loc' = NoLoc
    /\ ret' = NoRet
    /\ io' = NoIo
    /\ UNCHANGED <<index, chainHeight, cs_main, cs_wallet, ext>>

\* Variant: only the wallet lock is held while the pool is read.
name_pending_lock_WalletOnly ==
    /\ pc = "pending_lock"
    /\ getLock(pwallet) => cs_wallet = "free"
    /\ cs_mempool = "free"
    /\ IF req.name # <<>>
          /\ (EncodingFromOptionsJson(req.options) # "" \/ ~req.decodes)
       THEN /\ ret' = [status |->
                         IF EncodingFromOptionsJson(req.options) # ""
                         THEN EncodingFromOptionsJson(req.options)
                         ELSE "RPC_NAME_INVALID_ENCODING",
                       value |-> <<>>]
            /\ pc' = "done"
            /\ loc' = loc
            /\ UNCHANGED <<cs_wallet, cs_mempool>>
       ELSE /\ cs_wallet' = (IF getLock(pwallet) THEN "rpc" ELSE cs_wallet)
            /\ cs_mempool' = cs_mempool
            /\ loc' = [txHashes |-> queryHashes(mempool), i |-> 1, missing |-> 0]
                        @@ [loc EXCEPT !.res = <<>>]
            /\ pc' = "pending_loop"
            /\ ret' = ret
    /\ io' = [io EXCEPT !.locks = WalletLocks(pwallet) \cup {"cs_mempool"}, !.gets = 1]
    /\ UNCHANGED <<index, chainHeight, cs_main, req, cfg>>
    /\ UNCHANGED <<outfile, lastShow, thr, lockOrder, cacheDirty>>

\* LOCK2 (wallet.getLock (), mempool.cs), queryHashes, and the decoding of
\* the name filter, whose exception leaves the function and the locks.
name_pending_lock ==
    /\ pc = "pending_lock"
    /\ getLock(pwallet) => cs_wallet = "free"
    /\ cs_mempool = "free"
    /\ IF req.name # <<>>
          /\ (EncodingFromOptionsJson(req.options) # "" \/ ~req.decodes)
       THEN /\ ret' = [status |->
                         IF EncodingFromOptionsJson(req.options) # ""
                         THEN EncodingFromOptionsJson(req.options)
                         ELSE "RPC_NAME_INVALID_ENCODING",
                       value |-> <<>>]
            /\ pc' = "done"
            /\ loc' = loc
            /\ UNCHANGED <<cs_wallet, cs_mempool>>
       ELSE /\ cs_wallet' = (IF getLock(pwallet) THEN "rpc" ELSE cs_wallet)
            /\ cs_mempool' = "rpc"
            /\ loc' = [txHashes |-> queryHashes(mempool), i |-> 1, missing |-> 0]
                        @@ [loc EXCEPT !.res = <<>>]
            /\ pc' = "pending_loop"
            /\ ret' = ret
    /\ io' = [io EXCEPT !.locks = WalletLocks(pwallet) \cup {"cs_mempool"}, !.gets = 1]
    /\ UNCHANGED <<index, chainHeight, cs_main, req, cfg>>
    /\ UNCHANGED <<outfile, lastShow, thr, lockOrder, cacheDirty>>

\* One pass of the loop over txHashes.
name_pending_step ==
    /\ pc = "pending_loop"
    /\ loc.i <= Len(loc.txHashes)
    /\ LET tx == mempool_get(mempool, loc.txHashes[loc.i])
       IN loc' = [loc EXCEPT
                    !.i = loc.i + 1,
                    !.missing = IF tx = <<>> THEN loc.missing + 1 ELSE loc.missing,
                    !.res = IF tx = <<>> \/ ~tx[1].namecoin THEN loc.res
                            ELSE loc.res \o
                                 PendingOutputs(tx[1], loc.i, 1, req.name # <<>>,
                                     IF req.name # <<>> THEN req.name[1] ELSE <<>>)]
    /\ io' = [io EXCEPT !.gets = io.gets + 1]
    /\ UNCHANGED <<index, chainHeight, cs_main, cs_wallet, pc, req, ret, ext>>

name_pending_return ==
    /\ pc = "pending_loop"
    /\ loc.i > Len(loc.txHashes)
    /\ ret' = [status |-> "ok", value |-> loc.res]
    /\ cs_wallet' = "free"
    /\ cs_mempool' = "free"
    /\ pc' = "done"
    /\ UNCHANGED <<index, chainHeight, cs_main, req, loc, io, cfg>>
    /\ UNCHANGED <<outfile, lastShow, thr, lockOrder, cacheDirty>>

\* The rest of the node: a transaction enters the pool under mempool.cs.
AcceptToMemoryPool ==
    /\ cs_mempool = "free"
    /\ Len(mempool) < MaxPool
    /\ \E tx \in PoolTxs :
        /\ \A i \in 1..Len(mempool) : mempool[i] # tx
        /\ mempool' = Append(mempool, tx)
    /\ UNCHANGED <<index, chainHeight, cs_main, cs_wallet, pc, req, loc, ret, io>>
    /\ UNCHANGED <<ibd, fNameHistory, nameHistory, pwallet, txFound, pathOk, aux>>

\* The rest of the node: a transaction leaves the pool under mempool.cs,
\* confirmed by a block, replaced or evicted.  The model follows the
\* removals while a request is being served.
RemoveFromMemoryPool ==
    /\ cs_mempool = "free"
    /\ pc \in {"pending_lock", "pending_loop"}
    /\ \E j \in 1..Len(mempool) :
        mempool' = [i \in 1..(Len(mempool) - 1) |->
                      IF i < j THEN mempool[i] ELSE mempool[i + 1]]
    /\ UNCHANGED <<index, chainHeight, cs_main, cs_wallet, pc, req, loc, ret, io>>
    /\ UNCHANGED <<ibd, fNameHistory, nameHistory, pwallet, txFound, pathOk, aux>>

InitPending ==
    /\ chainHeight = 1
    /\ index = NoHistory
    /\ ibd \in BOOLEAN
    /\ mempool \in {<<>>} \cup {<<tx>> : tx \in PoolTxs}
    /\ fNameHistory = FALSE /\ nameHistory = NoHistory
    /\ cs_main = "free" /\ cs_wallet = "free" /\ cs_mempool = "free"
    /\ pc = "idle" /\ req = NoReq /\ loc = NoLoc /\ ret = NoRet /\ io = NoIo
    /\ txFound = {} /\ pathOk = TRUE
    /\ pwallet = <<OwnedNames>>
    /\ outfile = NoFile /\ lastShow = NoRet /\ thr = NoThreads
    /\ lockOrder = {}
    /\ cacheDirty = {}

NextPending ==
    \/ name_pending_parse
    \/ name_pending_lock
    \/ name_pending_step
    \/ name_pending_return
    \/ Respond
    \/ AcceptToMemoryPool
    \/ RemoveFromMemoryPool

SpecPending == InitPending /\ [][NextPending]_vars

-----------------------------------------------------------------------------
\* name_export

\* The empty pattern, which every name matches, and "/".
ExportPatterns ==
    { [anchored |-> FALSE, lit |-> <<>>], [anchored |-> FALSE, lit |-> <<47>>],
      BadPattern }
ExportOptions ==
    [ withHistory : {<<>>, <<TRUE>>},
      count : {<<>>} \cup {<<c>> : c \in (-1)..(MaxCount - 1)},
      unknown : {FALSE} ]
    \cup
    [ withHistory : {<<>>}, count : {<<>>}, unknown : BOOLEAN ]

OptWithHistory(o) == IF Len(o.withHistory) > 0 THEN o.withHistory[1] ELSE FALSE
OptExportCount(o) == IF Len(o.count) > 0 THEN o.count[1] ELSE -1

\* The checks before the locks: initial block download, the compilation of
\* the regexp, then withHistory without -namehistory.
ExportEntryError(pat, o) ==
    IF ibd THEN "RPC_CLIENT_IN_INITIAL_DOWNLOAD"
    ELSE IF ~sregex_compile(pat) THEN "regex_error"
    ELSE IF OptWithHistory(o) /\ ~fNameHistory THEN "std::runtime_error"
    ELSE ""

\* std::ofstream: open, operator<< and close.  A stream whose open failed
\* ignores what is written to it; nothing tests its state.
Token(t) == [t |-> t, v |-> <<>>]
Element(v) == [t |-> "element", v |-> v]
FileOpen == [state |-> IF pathOk THEN "open" ELSE "failed", text |-> <<>>]
FileWrite(f, toks) ==
    IF f.state = "open" THEN [f EXCEPT !.text = f.text \o toks] ELSE f
FileClose(f) == [f EXCEPT !.state = IF f.state = "open" THEN "closed" ELSE f.state]

\* GetTransaction for the transaction of a name update, and the block time
\* TxToJSON reports for it.
GetTransaction(entry) == entry.height \in txFound
BlockTime(h) == 1000 + h

\* pushTimestampOfDataTx: the record with the timestamp under keyName.
pushTimestampOfDataTx(entry, resRecord, keyName) ==
    (keyName :> BlockTime(entry.height)) @@ resRecord

\* The withHistory branch throws if GetTransaction fails for the data or for
\* a history entry.
ExportResolves(data, history) ==
    /\ GetTransaction(data)
    /\ \A i \in 1..Len(history) : GetTransaction(history[i])

\* resObj of the withHistory branch.
ExportObject(name, data, history, curHeight) ==
    [ history |-> [i \in 1..Len(history) |->
                     pushTimestampOfDataTx(history[i],
                         getNameInfoWallet(name, history[i], curHeight, pwallet), "time")] ]
    @@ pushTimestampOfDataTx(data, getNameInfoWallet(name, data, curHeight, pwallet),
                             "last_updated")

\* "if (maxCount != -1 && count >= maxCount) break", after count++.
ExportBreak(count, maxCount) == maxCount # -1 /\ count >= maxCount

\* Variant: the handler of the loop body catches every exception.
ExportCaught_All(exc) == TRUE

\* "catch (const InvalidNameString& exc) { continue; }"
ExportCaught(exc) == exc = "InvalidNameString"

\* What the body of the loop throws for an entry, "" if nothing.
ExportThrown(name, data, o) ==
    IF ~IsValidUtf8(name) THEN "InvalidNameString"
    ELSE IF ~regex_search(name, o.regexp) THEN ""
    ELSE IF OptWithHistory(o) /\ ~ExportResolves(data, GetNameHistory(name))
    THEN "RPC_INVALID_ADDRESS_OR_KEY"
    ELSE ""

\* What the body of the loop writes for a matching entry.
ExportWritten(name, data, count, o) ==
    IF OptWithHistory(o)
    THEN (IF count = 0 THEN <<>> ELSE <<Token(",")>>)
         \o <<Element(ExportObject(name, data, GetNameHistory(name), chainHeight))>>
    ELSE (IF count = 0 THEN <<>> ELSE <<Token(","), Token("endl")>>)
         \o <<Element(name)>>

\* One pass of "while (iter->next (name, data))": the locals and the file
\* after it.
ExportBody(l, f, o) ==
    LET name == NextName(l.iter)
        data == index[name]
        it == next(l.iter)
        exc == ExportThrown(name, data, o)
    IN IF exc # ""
       THEN [ loc |-> [l EXCEPT !.iter = it,
                                !.thrown = IF ExportCaught(exc) THEN "" ELSE exc,
                                !.skipped = l.skipped \cup {[name |-> name, why |-> exc]}],
              file |-> f ]
       ELSE IF ~regex_search(name, o.regexp)
       THEN [ loc |-> [l EXCEPT !.iter = it], file |-> f ]
       ELSE [ loc |-> [l EXCEPT !.iter = it,
                                !.count = l.count + 1,
                                !.res = Append(l.res, name),
                                !.broke = ExportBreak(l.count + 1, OptExportCount(o))],
              file |-> FileWrite(f, ExportWritten(name, data, l.count, o)) ]

ExportLoopCond(l) == l.thrown = "" /\ ~l.broke /\ HasNext(l.iter)

name_export_parse ==
    /\ pc = "idle"
    /\ \E pat \in ExportPatterns, o \in ExportOptions :
        /\ req' = [op |-> "name_export", regexp |-> pat] @@ o
        /\ IF ExportEntryError(pat, o) # ""
           THEN /\ ret' = [status |-> ExportEntryError(pat, o), value |-> <<>>]
                /\ pc' = "done"
           ELSE /\ ret' = NoRet
                /\ pc' = "export_lock"
    /\ loc' = NoLoc
    /\ io' = NoIo
    /\ UNCHANGED <<index, chainHeight, cs_main, cs_wallet, ext>>

\* LOCK2 (cs_main, wallet.getLock ()), outfile.open, the opening bracket
\* and IterateNames.
name_export_lock ==
    /\ pc = "export_lock"
    /\ cs_main = "free"
    /\ getLock(pwallet) => cs_wallet = "free"
    /\ cs_main' = "rpc"
    /\ cs_wallet' = (IF getLock(pwallet) THEN "rpc" ELSE cs_wallet)
    /\ loc' = [broke |-> FALSE] @@ [NoLoc EXCEPT !.iter = IterateNames]
    /\ outfile' = FileWrite(FileOpen, <<Token("["), Token("endl")>>)
    /\ io' = [io EXCEPT !.locks = {"cs_main"} \cup WalletLocks(pwallet), !.iters = 1]
    /\ pc' = "export_loop"
    /\ UNCHANGED <<index, chainHeight, req, ret, cfg>>
    /\ UNCHANGED <<cs_mempool, lastShow, thr, lockOrder, cacheDirty>>

name_export_step ==
    /\ pc = "export_loop"
    /\ ExportLoopCond(loc)
    /\ loc' = ExportBody(loc, outfile, req).loc
    /\ outfile' = ExportBody(loc, outfile, req).file
    /\ io' = [io EXCEPT !.nexts = io.nexts + 1]
    /\ UNCHANGED <<index, chainHeight, cs_main, cs_wallet, pc, req, ret, cfg>>
    /\ UNCHANGED <<cs_mempool, lastShow, thr, lockOrder, cacheDirty>>

\* Variant: the locks are released by hand after the loop, so that an
\* exception of the loop body leaves them held.
name_export_return_KeepLocks ==
    /\ pc = "export_loop"
    /\ ~ExportLoopCond(loc)
    /\ IF loc.thrown # ""
       THEN /\ ret' = [status |-> loc.thrown, value |-> <<>>]
            /\ outfile' = FileClose(outfile)
            /\ UNCHANGED <<cs_main, cs_wallet>>
       ELSE /\ ret' = [status |-> "ok",
                       value |-> <<[found |-> loc.count, regexp |-> req.regexp]>>]
            /\ outfile' = FileClose(FileWrite(outfile, <<Token("endl"), Token("]")>>))
            /\ cs_main' = "free"
            /\ cs_wallet' = "free"
    /\ pc' = "done"
    /\ UNCHANGED <<index, chainHeight, req, loc, io, cfg>>
    /\ UNCHANGED <<cs_mempool, lastShow, thr, lockOrder, cacheDirty>>

\* After the loop: the closing bracket, close and the summary; or the
\* exception of the loop body, which leaves the function, its locks and its
\* stream.
name_export_return ==
    /\ pc = "export_loop"
    /\ ~ExportLoopCond(loc)
    /\ IF loc.thrown # ""
       THEN /\ ret' = [status |-> loc.thrown, value |-> <<>>]
            /\ outfile' = FileClose(outfile)
       ELSE /\ ret' = [status |-> "ok",
                       value |-> <<[found |-> loc.count, regexp |-> req.regexp]>>]
            /\ outfile' = FileClose(FileWrite(outfile, <<Token("endl"), Token("]")>>))
    /\ cs_main' = "free"
    /\ cs_wallet' = "free"
    /\ pc' = "done"
    /\ UNCHANGED <<index, chainHeight, req, loc, io, cfg>>
    /\ UNCHANGED <<cs_mempool, lastShow, thr, lockOrder, cacheDirty>>

\* The response is handed to the caller, who keeps the exported file.
RespondExport ==
    /\ pc = "done"
    /\ pc' = "idle"
    /\ req' = NoReq
    /\ loc' = NoLoc
    /\ ret' = NoRet
    /\ io' = NoIo
    /\ outfile' = NoFile
    /\ UNCHANGED <<index, chainHeight, cs_main, cs_wallet, cfg>>
    /\ UNCHANGED <<cs_mempool, lastShow, thr, lockOrder, cacheDirty>>

InitExport ==
    /\ chainHeight = MaxHeight
    /\ index \in IndexStates(chainHeight)
    /\ ibd \in BOOLEAN
    /\ fNameHistory \in BOOLEAN
    /\ IF fNameHistory
       THEN \E S \in {T \in SUBSET DOMAIN index : Cardinality(T) <= 1} :
               nameHistory \in
                   { f \in [S -> UNION {HistoriesBefore(h) : h \in 1..chainHeight}] :
                       \A n \in S : /\ f[n] \in HistoriesBefore(index[n].height)
                                    /\ f[n] # <<>> }
       ELSE nameHistory = NoHistory
    /\ txFound \in {1..chainHeight} \cup {(1..chainHeight) \ {h} : h \in 1..chainHeight}
    /\ pathOk \in BOOLEAN
    /\ cs_main = "free" /\ cs_wallet = "free" /\ cs_mempool = "free"
    /\ pc = "idle" /\ req = NoReq /\ loc = NoLoc /\ ret = NoRet /\ io = NoIo
    /\ mempool = <<>>
    /\ pwallet = <<OwnedNames>>
    /\ outfile = NoFile /\ lastShow = NoRet /\ thr = NoThreads
    /\ lockOrder = {}
    /\ cacheDirty = {}

NextExport ==
    \/ name_export_parse
    \/ name_export_lock
    \/ name_export_step
    \/ name_export_return
    \/ RespondExport

SpecExport == InitExport /\ [][NextExport]_vars

-----------------------------------------------------------------------------
\* The locks of concurrent requests.  Every RPC worker thread runs one
\* handler at a time; what a handler does to the locks is the sequence of
\* its LOCK statements and of the ends of their scopes.

Workers == {"w1", "w2", "w3"}
Locks == {"cs_main", "cs_wallet", "mempool.cs"}

Lock(l) == [a |-> "lock", l |-> l]
Unlock(l) == [a |-> "unlock", l |-> l]

\* name_show and name_history: LOCK (cs_main) in a block of its own, then
\* LOCK (wallet.getLock ()).
ShowLocks ==
    << Lock("cs_main"), Unlock("cs_main"),
       Lock("cs_wallet"), Unlock("cs_wallet") >>
HistoryLocks ==
    << Lock("cs_main"), Unlock("cs_main"),
       Lock("cs_wallet"), Unlock("cs_wallet") >>

\* Variant: name_scan takes the wallet lock first.
ScanLocks_WalletFirst ==
    << Lock("cs_wallet"), Lock("cs_main"),
       Unlock("cs_main"), Unlock("cs_wallet") >>

\* name_scan: LOCK2 (cs_main, wallet.getLock ()).
ScanLocks ==
    << Lock("cs_main"), Lock("cs_wallet"),
       Unlock("cs_wallet"), Unlock("cs_main") >>

\* name_export: LOCK2 (cs_main, wallet.getLock ()), and the LOCK (cs_main)
\* of TxToJSON inside it.
ExportLocks ==
    << Lock("cs_main"), Lock("cs_wallet"),
       Lock("cs_main"), Unlock("cs_main"),
       Unlock("cs_wallet"), Unlock("cs_main") >>

\* name_pending: LOCK2 (wallet.getLock (), mempool.cs).
PendingLocks ==
    << Lock("cs_wallet"), Lock("mempool.cs"),
       Unlock("mempool.cs"), Unlock("cs_wallet") >>

\* name_checkdb: LOCK (cs_main).
CheckdbLocks == << Lock("cs_main"), Unlock("cs_main") >>

LockOps ==
    { "name_show", "name_history", "name_scan", "name_export",
      "name_pending", "name_checkdb" }

\* The lock statements of a handler; a request without a wallet has a null
\* wallet lock, which LOCK and LOCK2 pass over.
LockScript(op, wallet) ==
    LET all == CASE op = "name_show" -> ShowLocks
                 [] op = "name_history" -> HistoryLocks
                 [] op = "name_scan" -> ScanLocks
                 [] op = "name_export" -> ExportLocks
                 [] op = "name_pending" -> PendingLocks
                 [] op = "name_checkdb" -> CheckdbLocks
    IN IF wallet THEN all
       ELSE SelectSeq(all, LAMBDA st : st.l # "cs_wallet")

IdleWorker == [op |-> "none", wallet |-> FALSE, pos |-> 0, held |-> <<>>]

Holder(l) ==
    CASE l = "cs_main" -> cs_main
      [] l = "cs_wallet" -> cs_wallet
      [] l = "mempool.cs" -> cs_mempool

Holds(w, l) == \E i \in 1..Len(thr[w].held) : thr[w].held[i] = l

\* The next lock statement of a worker.
Step(w) == LockScript(thr[w].op, thr[w].wallet)[thr[w].pos]
AtStep(w) ==
    /\ thr[w].op # "none"
    /\ thr[w].pos <= Len(LockScript(thr[w].op, thr[w].wallet))

\* The holders of the three locks after lock l has gone to holder v.
SetHolder(l, v) ==
    /\ cs_main' = IF l = "cs_main" THEN v ELSE cs_main
    /\ cs_wallet' = IF l = "cs_wallet" THEN v ELSE cs_wallet
    /\ cs_mempool' = IF l = "mempool.cs" THEN v ELSE cs_mempool

\* What the lock statements leave alone.
unlocked ==
    <<index, chainHeight, pc, req, loc, ret, io, cfg, outfile, lastShow,
      cacheDirty>>

\* A worker thread takes a request.
WorkerStart(w) ==
    /\ thr[w].op = "none"
    /\ \E op \in LockOps, wallet \in BOOLEAN :
        thr' = [thr EXCEPT ![w] = [op |-> op, wallet |-> wallet,
                                   pos |-> 1, held |-> <<>>]]
    /\ UNCHANGED <<cs_main, cs_wallet, cs_mempool, lockOrder, unlocked>>

\* LOCK: the mutexes are recursive; a worker waits while another worker
\* holds the mutex.
WorkerLock(w) ==
    /\ AtStep(w)
    /\ Step(w).a = "lock"
    /\ Holder(Step(w).l) \in {"free", w}
    /\ SetHolder(Step(w).l, w)
    /\ lockOrder' = IF Holds(w, Step(w).l) THEN lockOrder
                    ELSE lockOrder \cup
                         {<<thr[w].held[i], Step(w).l>> : i \in 1..Len(thr[w].held)}
    /\ thr' = [thr EXCEPT ![w].pos = @ + 1,
                          ![w].held = Append(@, Step(w).l)]
    /\ UNCHANGED unlocked

\* The end of the scope of a LOCK.
WorkerUnlock(w) ==
    /\ AtStep(w)
    /\ Step(w).a = "unlock"
    /\ LET rest == SubSeq(thr[w].held, 1, Len(thr[w].held) - 1)
       IN /\ thr' = [thr EXCEPT ![w].pos = @ + 1, ![w].held = rest]
          /\ SetHolder(Step(w).l,
                 IF \E i \in 1..Len(rest) : rest[i] = Step(w).l
                 THEN w ELSE "free")
    /\ UNCHANGED <<lockOrder, unlocked>>

\* The handler returns.
WorkerReturn(w) ==
    /\ thr[w].op # "none"
    /\ ~AtStep(w)
    /\ thr' = [thr EXCEPT ![w] = IdleWorker]
    /\ UNCHANGED <<cs_main, cs_wallet, cs_mempool, lockOrder, unlocked>>

InitLocks ==
    /\ thr = [w \in Workers |-> IdleWorker]
    /\ lockOrder = {}
    /\ cacheDirty = {}
    /\ cs_main = "free" /\ cs_wallet = "free" /\ cs_mempool = "free"
    /\ chainHeight = 1 /\ index = NoHistory
    /\ ibd = FALSE /\ fNameHistory = FALSE /\ nameHistory = NoHistory
    /\ txFound = {} /\ pathOk = TRUE /\ mempool = <<>>
    /\ pwallet = <<>>
    /\ pc = "idle" /\ req = NoReq /\ loc = NoLoc /\ ret = NoRet /\ io = NoIo
    /\ outfile = NoFile /\ lastShow = NoRet

NextLocks ==
    \E w \in Workers :
        \/ WorkerStart(w)
        \/ WorkerLock(w)
        \/ WorkerUnlock(w)
        \/ WorkerReturn(w)

SpecLocks == InitLocks /\ [][NextLocks]_vars

-----------------------------------------------------------------------------
\* C12: every returned record has expires_in = h + expirationDepth (current
\* height) - current height, where h is the update height of the record and
\* the current height is the chain height at the call, and expired is true
\* exactly when expires_in <= 0.  With update height 100, chain height 105
\* and depth 50, expires_in is 45 and expired is false; a record whose
\* expires_in is 0 is expired.
C12_ExpirationInfo ==
    /\ InScanLoop =>
          \A i \in 1..Len(loc.res) :
              LET r == loc.res[i]
                  h == index[r.name].height
              IN /\ r.height = h
                 /\ r.expires_in = (h + NameExpirationDepth(chainHeight)) - chainHeight
                 /\ r.expired = (r.expires_in <= 0)
    /\ addExpirationInfo(100, 105).expires_in = 45
    /\ addExpirationInfo(100, 105).expired = FALSE
    /\ addExpirationInfo(55, 105).expires_in = 0
    /\ addExpirationInfo(55, 105).expired = TRUE

\* A scan returned an expired record with expires_in = 0 and a live one.
C12_Witness ==
    /\ ScanFinished
    /\ \E i, j \in 1..Len(loc.res) :
          /\ loc.res[i].expires_in = 0 /\ loc.res[i].expired
          /\ loc.res[j].expires_in > 0 /\ ~loc.res[j].expired

-----------------------------------------------------------------------------
\* Two answers of name_show for the same name, made from the same index
\* entry.  Updates only ever move an entry to a later height, so the entry
\* did not change between the two reads.
SameLookupAgain ==
    /\ pc = "done" /\ req.op = "name_show" /\ ret.status = "ok"
    /\ lastShow.status = "ok"
    /\ lastShow.name = req.name
    /\ lastShow.data = loc.data

\* No entry of the index changed from the first answer to the second.
IndexUnchanged == lastShow.index = index

AgreeExcept(fields) ==
    LET a == lastShow.value[1]
        b == ret.value[1]
    IN /\ DOMAIN a = DOMAIN b
       /\ \A f \in DOMAIN a \ fields : a[f] = b[f]

\* C13 as stated: repeated name_show calls for one name against an unchanged
\* index return records that are identical in every field except expires_in,
\* whatever the chain height is at each call.
C13_IdempotentAsStated ==
    (SameLookupAgain /\ IndexUnchanged) => AgreeExcept({"expires_in"})

\* C13: repeated name_show calls for one name against an unchanged index
\* return records that are identical in every field except expires_in and
\* expired, both of which follow the chain height at each call.
C13_Idempotent == SameLookupAgain => AgreeExcept({"expires_in", "expired"})

\* The second call ran at another chain height and its record went from
\* live to expired.
C13_Witness ==
    /\ SameLookupAgain
    /\ IndexUnchanged
    /\ lastShow.value[1].expires_in # ret.value[1].expires_in
    /\ lastShow.value[1].expired # ret.value[1].expired

-----------------------------------------------------------------------------
HistoryDone == pc = "done" /\ req.op = "name_history"

\* C14: a name_history call with -namehistory disabled fails with the
\* "not enabled" error and returns no array, whether or not the name exists
\* or the chain is in initial download, and reads nothing.  With
\* -namehistory enabled and the chain synced, a name that is present gives
\* the stored history entries oldest first followed by the current record
\* (as many elements as history entries, plus one) and a name that is
\* absent gives "name not found".
C14_History ==
    HistoryDone =>
        /\ ~fNameHistory =>
              /\ ret = [status |-> "std::runtime_error", value |-> <<>>]
              /\ io = NoIo
        /\ (fNameHistory /\ ~ibd /\ loc.data # <<>>) =>
              LET n == Len(loc.history)
              IN /\ ret.status = "ok"
                 /\ Len(ret.value) = n + 1
                 /\ \A i \in 1..n :
                       /\ ret.value[i].name = req.name
                       /\ ret.value[i].height = loc.history[i].height
                 /\ ret.value[n + 1].name = req.name
                 /\ ret.value[n + 1].height = loc.data[1].height
                 /\ \A i, j \in 1..(n + 1) :
                       i < j => ret.value[i].height < ret.value[j].height
                 /\ fNameHistory /\ req.name \in DOMAIN nameHistory
                       => \A i \in 1..n : loc.history[i] \in
                             {nameHistory[req.name][k] :
                                  k \in 1..Len(nameHistory[req.name])}
        /\ (fNameHistory /\ ~ibd /\ loc.data = <<>>) =>
              ret = [status |-> "RPC_WALLET_ERROR", value |-> <<>>]

\* A history of two entries was returned in front of the current record.
C14_Witness ==
    /\ HistoryDone
    /\ ret.status = "ok"
    /\ Len(ret.value) = 3
    /\ ret.value[1].height < ret.value[2].height

\* -namehistory is disabled, the chain is in initial download, and the
\* call failed with the "not enabled" error.
C14_WitnessDisabled ==
    /\ HistoryDone
    /\ ~fNameHistory /\ ibd
    /\ ret.status = "std::runtime_error"

-----------------------------------------------------------------------------
\* C15: while the chain is in initial block download, a request (name_show,
\* name_history, name_scan, name_pending, name_export) takes no lock and
\* reads neither the index nor the pool, and it ends with the
\* initial-download error and no records.
C15_SyncInProgress ==
    ibd =>
        /\ io = NoIo
        /\ pc = "done" => ret = InitialDownload

\* In initial block download name_pending has read the pool and returned a
\* record.
C15_Witness ==
    /\ ibd
    /\ pc = "done" /\ req.op = "name_pending"
    /\ ret.status = "ok"
    /\ Len(ret.value) > 0
    /\ io.gets > 0

-----------------------------------------------------------------------------
\* The loop of name_pending has ended and the locks are still held.
PendingFinished ==
    pc = "pending_loop" /\ loc.i > Len(loc.txHashes)

\* A record of name_pending without its ownership field.
PendingCore(r) == [f \in DOMAIN r \ {"ismine"} |-> r[f]]

\* The outputs of the pool that name_pending is to report, as records.
PendingExpected ==
    { [ name |-> mempool[i].vout[n].name, txid |-> i, vout |-> n,
        op |-> IF mempool[i].vout[n].op = "OP_NAME_FIRSTUPDATE"
               THEN "name_firstupdate" ELSE "name_update" ] :
        <<i, n>> \in
          { x \in (1..Len(mempool)) \X (1..MaxOutputs) :
              /\ x[2] <= Len(mempool[x[1]].vout)
              /\ mempool[x[1]].vout[x[2]].op
                    \in {"OP_NAME_FIRSTUPDATE", "OP_NAME_UPDATE"}
              /\ req.name # <<>> => mempool[x[1]].vout[x[2]].name = req.name[1] } }

\* C16: name_pending returns exactly one record for every output of every
\* pool transaction that is a first update or an update (of the filter name,
\* if a filter is given) and no other record: none for NAME_NEW or for
\* outputs without a name operation, none left out, and each record's op is
\* "name_firstupdate" or "name_update" according to the operation.
C16_PendingExact ==
    PendingFinished =>
        /\ {PendingCore(loc.res[k]) : k \in 1..Len(loc.res)} = PendingExpected
        /\ Len(loc.res) = Cardinality(PendingExpected)
        /\ \A k \in 1..Len(loc.res) :
              LET o == mempool[loc.res[k].txid].vout[loc.res[k].vout]
              IN /\ o.op = "OP_NAME_FIRSTUPDATE" <=> loc.res[k].op = "name_firstupdate"
                 /\ o.op = "OP_NAME_UPDATE" <=> loc.res[k].op = "name_update"

\* A pool with a first update next to a currency output and an update gave
\* two records, one of each kind.
C16_Witness ==
    /\ PendingFinished
    /\ Len(loc.res) = 2
    /\ loc.res[1].op # loc.res[2].op
    /\ \E i \in 1..Len(mempool) : Len(mempool[i].vout) = 2

\* A NAME_NEW output and an output of another name than the filter's were
\* left out.
C16_WitnessSkipped ==
    /\ PendingFinished
    /\ req.name # <<>>
    /\ Len(loc.res) = 0
    /\ \E i, j \in 1..Len(mempool) :
          /\ \E n \in DOMAIN mempool[i].vout : mempool[i].vout[n].op = "OP_NAME_NEW"
          /\ \E n \in DOMAIN mempool[j].vout : mempool[j].vout[n].op = "OP_NAME_UPDATE"

-----------------------------------------------------------------------------
\* Reference definitions for the properties of name_export

ExportDone == pc = "done" /\ req.op = "name_export"
ExportDoneOk == ExportDone /\ ret.status = "ok"

\* The names name_export selects: valid UTF-8 and matching the pattern.
ExportMatching ==
    { n \in DOMAIN index : IsValidUtf8(n) /\ regex_search(n, req.regexp) }

\* The file's tokens without the line ends, which are white space in JSON.
NoSpace(text) == SelectSeq(text, LAMBDA t : t.t # "endl")

\* A JSON array: brackets around elements separated by single commas.
IsJsonArray(text) ==
    LET t == NoSpace(text)
        n == Len(t)
    IN /\ n >= 2
       /\ t[1].t = "[" /\ t[n].t = "]"
       /\ n = 2 \/ n % 2 = 1
       /\ \A i \in 2..(n - 1) :
             t[i].t = (IF i % 2 = 0 THEN "element" ELSE ",")

\* The values of the elements of the file, in order.
FileElements(text) ==
    LET e == SelectSeq(text, LAMBDA t : t.t = "element")
    IN [i \in 1..Len(e) |-> e[i].v]

ExportArray ==
    /\ outfile.state = "closed"
    /\ IsJsonArray(outfile.text)
    /\ (~OptWithHistory(req) /\ OptExportCount(req) = -1) =>
          FileElements(outfile.text) = InOrder(ExportMatching)

\* C17: when name_export returns its summary, the destination is closed and
\* holds a JSON array: an opening bracket, elements separated by exactly one
\* comma with none leading or trailing, a closing bracket; without
\* withHistory and without a count it holds one string per matching name
\* (three for three matches, none for none).
C17_ValidArray == ExportDoneOk => ExportArray

\* name_export returned its summary for two names although the destination
\* could not be opened and holds nothing.
C17_Witness ==
    /\ ExportDoneOk
    /\ outfile.state = "failed"
    /\ ~IsJsonArray(outfile.text)
    /\ Cardinality(ExportMatching) = 2

\* The array is well formed whenever the destination could be opened.
ExportArrayIfWritable == (ExportDoneOk /\ pathOk) => ExportArray

\* C18: a name_export with count c other than -1 writes at most c elements,
\* for c = 0 as well; with count -1 (or none) it writes every matching name.
C18_CountCap ==
    ExportDoneOk =>
        /\ OptExportCount(req) # -1 =>
              Len(FileElements(outfile.text)) <= OptExportCount(req)
        /\ (OptExportCount(req) = -1 /\ pathOk) =>
              Len(FileElements(outfile.text)) = Cardinality(ExportMatching)

\* With count 0 one element was written.
C18_Witness ==
    /\ ExportDoneOk
    /\ req.count = <<0>>
    /\ Len(FileElements(outfile.text)) = 1
    /\ ret.value[1].found = 1

\* The count is honoured from 1 on.
ExportCapFromOne ==
    (ExportDoneOk /\ OptExportCount(req) >= 1) =>
        /\ Len(FileElements(outfile.text)) <= OptExportCount(req)
        /\ pathOk => Len(FileElements(outfile.text))
                        = Min(OptExportCount(req), Cardinality(ExportMatching))

\* The entries the loop of name_export has taken from the iterator.
ExportVisited ==
    { n \in DOMAIN index : ~loc.iter.incl /\ NameLeq(n, loc.iter.key) }

\* Visited matching entries whose own transaction, or that of one of their
\* history entries, GetTransaction does not find.
ExportUnresolved ==
    { n \in ExportVisited \cap ExportMatching :
        ~ExportResolves(index[n], GetNameHistory(n)) }

\* C19: in a name_export with history, a matched record or history entry
\* whose timestamp cannot be resolved ends the export with the error of
\* pushTimestampOfDataTx: the entry is the last one taken from the iterator,
\* no element is written for it, the closing bracket is not written and no
\* summary is returned; an export that returns its summary met no such
\* entry.
C19_ResolutionAborts ==
    (ExportDone /\ ExportEntryError(req.regexp, req) = "" /\ OptWithHistory(req)) =>
        IF ExportUnresolved # {}
        THEN /\ ret = [status |-> "RPC_INVALID_ADDRESS_OR_KEY", value |-> <<>>]
             /\ ExportUnresolved = {loc.iter.key}
             /\ \A i \in 1..Len(FileElements(outfile.text)) :
                   FileElements(outfile.text)[i].name # loc.iter.key
             /\ Len(FileElements(outfile.text)) = loc.count
                   \/ ~pathOk
             /\ \A i \in 1..Len(outfile.text) : outfile.text[i].t # "]"
        ELSE ret.status = "ok"

\* The record of the second matching name resolved but its history entry did
\* not: one element had been written and the export failed.
C19_Witness ==
    /\ ExportDone
    /\ OptWithHistory(req)
    /\ ret.status = "RPC_INVALID_ADDRESS_OR_KEY"
    /\ loc.count = 1
    /\ Len(FileElements(outfile.text)) = 1
    /\ GetTransaction(index[loc.iter.key])
    /\ \E i \in 1..Len(GetNameHistory(loc.iter.key)) :
          ~GetTransaction(GetNameHistory(loc.iter.key)[i])

\* C20: a name_export whose destination cannot be opened or written does
\* not return the count summary but fails with an error.
C20_IoFailure ==
    (ExportDone /\ ~pathOk /\ ExportEntryError(req.regexp, req) = "") => ret.status # "ok"

\* The destination could not be opened, nothing was written, and the
\* summary reports the names found.
C20_Witness ==
    /\ ExportDone
    /\ ~pathOk
    /\ outfile.text = <<>>
    /\ ret.status = "ok"
    /\ ret.value[1].found >= 1

-----------------------------------------------------------------------------
\* cs_main before the wallet lock before mempool.cs.
GlobalLockOrder ==
    { <<"cs_main", "cs_wallet">>, <<"cs_main", "mempool.cs">>,
      <<"cs_wallet", "mempool.cs">> }

\* A worker that is at a LOCK of a mutex another worker holds.
WaitsFor(w, v) ==
    /\ AtStep(w) /\ Step(w).a = "lock"
    /\ v # w /\ Holder(Step(w).l) = v

\* Some workers wait for each other in a circle.
Deadlocked ==
    \E S \in SUBSET Workers :
        /\ S # {}
        /\ \A w \in S : \E v \in S : WaitsFor(w, v)

\* C11: whatever requests (name_show, name_history, name_scan, name_export,
\* name_pending, name_checkdb) run concurrently, a worker that takes a lock
\* while it holds another takes them in the one order cs_main, wallet lock,
\* mempool.cs, and no set of workers ever waits for each other's locks.
C11_LockOrder ==
    /\ lockOrder \subseteq GlobalLockOrder
    /\ ~Deadlocked
    /\ \A l \in Locks : Holder(l) # "free" => Holds(Holder(l), l)

\* A name_scan holds cs_main and waits for the wallet lock, which a
\* name_pending holds together with mempool.cs.
C11_Witness ==
    \E w, v \in Workers :
        /\ thr[w].op = "name_scan" /\ thr[v].op = "name_pending"
        /\ Holds(w, "cs_main") /\ WaitsFor(w, v)
        /\ Holds(v, "cs_wallet") /\ Holds(v, "mempool.cs")
        /\ lockOrder = {<<"cs_main", "cs_wallet">>, <<"cs_wallet", "mempool.cs">>}

-----------------------------------------------------------------------------
\* name_checkdb

\* CCoinsViewCache::ValidateNameDB: whether the name database is consistent;
\* in the model, whether every entry's height is a height of the chain.
ValidateNameDB(idx) == \A n \in DOMAIN idx : idx[n].height \in 1..chainHeight

\* LOCK (cs_main)
name_checkdb_lock ==
    /\ pc = "idle"
    /\ cs_main = "free"
    /\ req' = [op |-> "name_checkdb"]
    /\ cs_main' = "rpc"
    /\ pc' = "checkdb"
    /\ loc' = NoLoc
    /\ ret' = NoRet
    /\ io' = [NoIo EXCEPT !.locks = {"cs_main"}]
    /\ UNCHANGED <<index, chainHeight, cs_wallet, cfg>>
    /\ UNCHANGED aux

\* Variant: the flush loses the entries that were only in the cache.
name_checkdb_DropCache ==
    /\ pc = "checkdb"
    /\ index' = [n \in DOMAIN index \ cacheDirty |-> index[n]]
    /\ cacheDirty' = {}
    /\ ret' = [status |-> "ok", value |-> <<ValidateNameDB(index')>>]
    /\ cs_main' = "free"
    /\ pc' = "done"
    /\ UNCHANGED <<chainHeight, cs_wallet, req, loc, io, cfg>>
    /\ UNCHANGED <<cs_mempool, outfile, lastShow, thr, lockOrder>>

\* coinsTip.Flush (), which writes the cache's entries to disk and leaves the
\* view as it is, coinsTip.ValidateNameDB () and the return.
name_checkdb ==
    /\ pc = "checkdb"
    /\ cacheDirty' = {}
    /\ ret' = [status |-> "ok", value |-> <<ValidateNameDB(index)>>]
    /\ cs_main' = "free"
    /\ pc' = "done"
    /\ UNCHANGED <<index, chainHeight, cs_wallet, req, loc, io, cfg>>
    /\ UNCHANGED <<cs_mempool, outfile, lastShow, thr, lockOrder>>

-----------------------------------------------------------------------------
\* The six query handlers of the commands table on one node.

\* A name database with MaxNames - 1 or more names of the namespace d, the
\* name "d" updated in the last block.
SampleIndex ==
    [n \in {m \in NameUniverse : m[1] = 100} |->
        CNameData(IF n = <<100>> THEN MaxHeight ELSE 1)]

\* A pool with a NAME_NEW and with a first update of "d".
SamplePool ==
    << [namecoin |-> TRUE, vout |-> <<[op |-> "OP_NAME_NEW", name |-> <<>>]>>],
       [namecoin |-> TRUE,
        vout |-> << [op |-> "none", name |-> <<>>],
                    [op |-> "OP_NAME_FIRSTUPDATE", name |-> <<100>>] >>] >>

InitAll ==
    /\ chainHeight = MaxHeight
    /\ index \in {NoHistory, SampleIndex}
    /\ ibd \in BOOLEAN
    /\ fNameHistory \in BOOLEAN
    /\ nameHistory =
          IF fNameHistory /\ <<100>> \in DOMAIN index
          THEN [n \in {<<100>>} |-> <<CNameData(1)>>]
          ELSE NoHistory
    /\ pwallet \in {<<>>, <<OwnedNames>>}
    /\ pathOk \in BOOLEAN
    /\ txFound = (IF pathOk THEN 1..chainHeight ELSE {})
    /\ mempool \in {<<>>, SamplePool}
    /\ cacheDirty \in {{}, DOMAIN index}
    /\ cs_main = "free" /\ cs_wallet = "free" /\ cs_mempool = "free"
    /\ pc = "idle" /\ req = NoReq /\ loc = NoLoc /\ ret = NoRet /\ io = NoIo
    /\ outfile = NoFile /\ lastShow = NoRet /\ thr = NoThreads
    /\ lockOrder = {}

NextAll ==
    \/ name_show_parse
    \/ name_show_lock
    \/ name_show_get
    \/ name_show_info
    \/ name_history_parse
    \/ name_history_lock
    \/ name_history_get
    \/ name_history_info
    \/ name_scan_parse
    \/ name_scan_lock
    \/ name_scan_step
    \/ name_scan_return
    \/ name_pending_parse
    \/ name_pending_lock
    \/ name_pending_step
    \/ name_pending_return
    \/ name_export_parse
    \/ name_export_lock
    \/ name_export_step
    \/ name_export_return
    \/ name_checkdb_lock
    \/ name_checkdb
    \/ RespondExport

SpecAll == InitAll /\ [][NextAll]_vars

-----------------------------------------------------------------------------
\* TRUE for the options that the checks of name_scan refuse.
ScanBadOptions(o) ==
    \/ OptMinConf(o) < 1
    \/ Len(o.maxConf) > 0 /\ OptMaxConf(o) < 0
    \/ haveRegexp(o) /\ ~sregex_compile(o.regexp[1])

\* C22: a name_scan with minConf < 1, with maxConf < 0 or with a regexp that
\* does not compile fails with RPC_INVALID_PARAMETER before cs_main or
\* cs_wallet is taken, before an iterator is made and before a record is
\* read, even when count <= 0.
C22_InvalidParameter ==
    ( /\ pc = "done" /\ req.op = "name_scan" /\ ~ibd
      /\ ScanBadOptions(req.options) ) =>
        /\ ret.status = "RPC_INVALID_PARAMETER"
        /\ io = NoIo
        /\ cs_main = "free" /\ cs_wallet = "free"

\* A name_scan with count <= 0 whose only fault is the regexp "(" has ended
\* with the regex_error of the compilation.
C22_Witness ==
    /\ pc = "done" /\ req.op = "name_scan" /\ ~ibd
    /\ req.count <= 0
    /\ req.options.regexp = <<BadPattern>>
    /\ req.options.minConf = <<>> /\ req.options.maxConf = <<>>
    /\ ret.status = "regex_error"
    /\ io = NoIo

-----------------------------------------------------------------------------
\* The finished request is one of the five handlers that take options, and
\* its options hold a key that the handler does not know.
UnknownKeyGiven ==
    /\ pc = "done"
    /\ req.op \in {"name_show", "name_history", "name_scan", "name_pending",
                   "name_export"}
    /\ IF req.op = "name_export" THEN req.unknown ELSE req.options.unknown

\* C21: a request of name_show, name_history, name_scan, name_pending or
\* name_export whose options hold a key that the handler does not know is
\* refused, and it is refused before the index or the pool is touched: no
\* lock was taken, no iterator made and nothing read.
C21_UnknownOption ==
    UnknownKeyGiven => (ret.status # "ok" /\ io = NoIo)

\* A name_scan whose options hold an unknown key has taken the locks, read
\* the index and returned records with the status "ok".
C21_Witness ==
    /\ UnknownKeyGiven
    /\ req.op = "name_scan"
    /\ ret.status = "ok"
    /\ Len(ret.value) >= 1
    /\ "cs_main" \in io.locks /\ io.nexts >= 1

-----------------------------------------------------------------------------
\* C23: no step of name_show, name_history, name_scan, name_pending,
\* name_export or name_checkdb, whether its request ends well or in an
\* error, changes the names and data of the name database, the stored
\* histories or the transactions of the memory pool.
C23_ReadOnly ==
    [][ /\ index' = index
        /\ nameHistory' = nameHistory
        /\ mempool' = mempool ]_vars

\* name_checkdb has flushed the cache of a name database that holds names,
\* and has found it valid.
C23_Witness ==
    /\ pc = "done" /\ req.op = "name_checkdb"
    /\ index = SampleIndex
    /\ cacheDirty = {}
    /\ ret = [status |-> "ok", value |-> <<TRUE>>]

-----------------------------------------------------------------------------
\* The request has ended well and its answer is a list of records.
RecordsReturned ==
    /\ pc = "done" /\ ret.status = "ok"
    /\ req.op \in {"name_show", "name_history", "name_scan", "name_pending"}

\* C24: a record returned by name_show, name_history, name_scan or
\* name_pending has the field ismine exactly when the request has a wallet;
\* without a wallet the field is left out, not set to false, and with one it
\* tells whether the wallet owns the name's address.
C24_Ownership ==
    RecordsReturned =>
        \A i \in 1..Len(ret.value) :
            /\ ("ismine" \in DOMAIN ret.value[i]) <=> (pwallet # <<>>)
            /\ pwallet # <<>> =>
                  ret.value[i].ismine = (ret.value[i].name \in pwallet[1])

\* A name_scan without a wallet has returned two records, neither of them
\* with the field.
C24_Witness ==
    /\ RecordsReturned
    /\ req.op = "name_scan"
    /\ pwallet = <<>>
    /\ Len(ret.value) >= 2
    /\ \A i \in 1..Len(ret.value) : "ismine" \notin DOMAIN ret.value[i]
    /\ cs_wallet = "free" /\ "cs_wallet" \notin io.locks

-----------------------------------------------------------------------------
\* C25: when a request has ended, by a normal return or by an exception
\* (name not found, a name filter of name_pending that does not decode, a
\* transaction that name_export cannot resolve), cs_main, cs_wallet and
\* mempool.cs are free again, whatever locks the request had taken.
C25_LocksReleased ==
    pc \in {"done", "idle"} =>
        /\ cs_main = "free"
        /\ cs_wallet = "free"
        /\ cs_mempool = "free"

\* A name_export with history has written an element, has failed on a
\* transaction that it cannot resolve, and holds no lock.
C25_Witness ==
    /\ pc = "done" /\ req.op = "name_export"
    /\ ret.status \notin {"ok", "none"}
    /\ io.locks = {"cs_main", "cs_wallet"}
    /\ io.nexts >= 1
    /\ cs_main = "free" /\ cs_wallet = "free" /\ cs_mempool = "free"

\* A name_pending whose name filter does not decode has failed after taking
\* cs_wallet and mempool.cs, and holds no lock.
C25_WitnessPending ==
    /\ pc = "done" /\ req.op = "name_pending"
    /\ ret.status = "RPC_NAME_INVALID_ENCODING"
    /\ io.locks = {"cs_wallet", "cs_mempool"}
    /\ cs_wallet = "free" /\ cs_mempool = "free"

-----------------------------------------------------------------------------
\* name_export without history and without a count cap has returned its
\* summary.
ExportAllNames ==
    ExportDoneOk /\ ~OptWithHistory(req) /\ OptExportCount(req) = -1

\* What C26 says of such an export: the elements are the matching names that
\* have a UTF-8 rendering, all of them and in index order; the names without
\* one were skipped with no error and are not counted.
ExportSelection ==
    /\ FileElements(outfile.text) = InOrder(ExportMatching)
    /\ ret.value[1].found = Cardinality(ExportMatching)
    /\ \A s \in loc.skipped : ~IsValidUtf8(s.name) /\ s.why = "InvalidNameString"
    /\ ExportVisited = DOMAIN index

\* C26: name_export with withHistory = false and count = -1 goes through the
\* whole index from its first name and selects by the regexp on the UTF-8
\* rendering alone: the elements written are the renderings of all the
\* matching names, in index order, whatever their height or prefix; a name
\* without a rendering is skipped without error and is not counted.
C26_ExportSelection == ExportAllNames => ExportSelection

\* The index holds two matching names and a name that is not UTF-8; the
\* export counted the two, skipped the third and returned its summary, but
\* the destination did not open and no element was written.
C26_Witness ==
    /\ ExportAllNames
    /\ Cardinality(ExportMatching) = 2
    /\ \E s \in loc.skipped : ~IsValidUtf8(s.name)
    /\ ret.value[1].found = 2
    /\ FileElements(outfile.text) = <<>>
    /\ ~pathOk

\* With a destination that opens, the selection is as C26 says.
ExportSelectionIfWritable == (ExportAllNames /\ pathOk) => ExportSelection

-----------------------------------------------------------------------------
\* C29: when name_export returns its summary, the number in it is the number
\* of elements written to the destination array, with or without history
\* and with or without a count cap.
C29_SummaryCount ==
    ExportDoneOk => ret.value[1].found = Len(FileElements(outfile.text))

\* An export with history and a count cap of 2 reports two names; the
\* destination did not open and holds no element.
C29_Witness ==
    /\ ExportDoneOk
    /\ OptWithHistory(req)
    /\ OptExportCount(req) = 2
    /\ ret.value[1].found = 2
    /\ Len(FileElements(outfile.text)) = 0
    /\ outfile.state = "failed"

\* With a destination that opens, the summary counts the elements written.
SummaryCountIfWritable ==
    (ExportDoneOk /\ pathOk) =>
        ret.value[1].found = Len(FileElements(outfile.text))

-----------------------------------------------------------------------------
\* C27: name_pending holds mempool.cs from queryHashes until the last record
\* is assembled, so that the pool does not change in between: every hash it
\* enumerated is still in the pool when mempool.get is called for it, and no
\* transaction is missed in the middle of the scan.
C27_PoolHeld ==
    /\ pc = "pending_loop" =>
          /\ cs_mempool = "rpc"
          /\ queryHashes(mempool) = loc.txHashes
          /\ loc.missing = 0
    /\ (pc = "done" /\ req.op = "name_pending" /\ ret.status = "ok") =>
          loc.missing = 0

\* A scan of a pool of two transactions has looked both of them up and found
\* both, with the lock still held.
C27_Witness ==
    /\ PendingFinished
    /\ Len(loc.txHashes) = 2
    /\ loc.missing = 0
    /\ io.gets = 3
    /\ cs_mempool = "rpc"

-----------------------------------------------------------------------------
\* name_scan and name_export run by a worker thread that goes on: a handler
\* that can take its locks takes them, a loop that can make a pass makes it,
\* and a handler whose loop has ended returns.

InitTerm ==
    /\ chainHeight = MaxHeight
    /\ index \in {NoHistory, SampleIndex}
    /\ ibd = FALSE
    /\ fNameHistory \in BOOLEAN
    /\ nameHistory =
          IF fNameHistory /\ <<100>> \in DOMAIN index
          THEN [n \in {<<100>>} |-> <<CNameData(1)>>]
          ELSE NoHistory
    /\ pwallet = <<OwnedNames>>
    /\ pathOk = TRUE
    /\ txFound \in {1..chainHeight, {}}
    /\ mempool = <<>>
    /\ cacheDirty = {}
    /\ cs_main = "free" /\ cs_wallet = "free" /\ cs_mempool = "free"
    /\ pc = "idle" /\ req = NoReq /\ loc = NoLoc /\ ret = NoRet /\ io = NoIo
    /\ outfile = NoFile /\ lastShow = NoRet /\ thr = NoThreads
    /\ lockOrder = {}

NextTerm ==
    \/ name_scan_parse
    \/ name_scan_lock
    \/ name_scan_step
    \/ name_scan_return
    \/ name_export_parse
    \/ name_export_lock
    \/ name_export_step
    \/ name_export_return
    \/ RespondExport

SpecTerm ==
    /\ InitTerm
    /\ [][NextTerm]_vars
    /\ WF_vars(name_scan_lock)
    /\ WF_vars(name_scan_step)
    /\ WF_vars(name_scan_return)
    /\ WF_vars(name_export_lock)
    /\ WF_vars(name_export_step)
    /\ WF_vars(name_export_return)

\* The request is in the loop of name_scan or of name_export.
InLoop == pc \in {"scan_loop", "export_loop"}

\* The number of entries that the iterator of the loop has yet to give.
EntriesLeft(l) == Cardinality(IterRest(l.iter))

-----------------------------------------------------------------------------
C30_WitnessHistory ==
    /\ req.op = "name_history" /\ pc = "history_info"
    /\ req.name \notin DOMAIN nameHistory
    /\ loc.history = <<>>

====
